---- MODULE Spec2Model ----
(***************************************************************************)
(* A model of the Tokenizer widget of tokenizer.js (tokenizer.ts,          *)
(* tokenizer-utils.ts, tokenizer-browser-quirks.ts, browser.ts).           *)
(*                                                                         *)
(* The widget owns a contenteditable container.  Its state is the          *)
(* container's child nodes, the document selection, the focus, the edited  *)
(* node reference, the IME flag, the RxJS subscriptions and the timers and *)
(* promises that are pending.  Text is a sequence of one-character         *)
(* strings; markup is a sequence of element descriptions, one per          *)
(* serialised element, so that two markup strings are equal exactly when   *)
(* their descriptions are.                                                 *)
(***************************************************************************)
EXTENDS Integers, Sequences, FiniteSets, TLC

VARIABLES
    nodes,       \* el.childNodes: the container's child nodes, in document order
    sel,         \* the document selection (window.getSelection())
    focused,     \* document.activeElement is the container
    editedNode,  \* Tokenizer.editedNode
    isComposingIME, \* Tokenizer.isComposingIME
    subscribed,  \* the subscriptions of Tokenizer.subscriptions are open
    keyupsOpen,  \* the keyups subscription has neither errored nor been unsubscribed
    tasks,       \* cycles of the change-event pipeline that are pending or in flight
    reqs,        \* refreshTokens() calls awaiting config.onChange
    timeouts,    \* setTimeout callbacks of the widget that have not run yet
    keys,        \* the keydown chain: its subscription and its two debounces
    innerText,   \* Tokenizer.innerText: the text as of the last assignment
    hasWrapped,  \* Tokenizer.hasWrapped
    config,      \* Tokenizer.config: the callbacks that are functions
    narrow,      \* the window leaves the container room for one element per line
    detected,    \* browser.ts: the name detect() reported when the module loaded
    browserName, \* browser.ts: the exported browserName
    evCount,     \* number of change events dispatched so far
    callSeq,     \* number of config.onChange calls issued so far
    hist,        \* history of the change-event pipeline and of destroy (observer)
    last         \* what the last step did (observer)

vars == <<nodes, sel, focused, editedNode, isComposingIME, subscribed, keyupsOpen,
          tasks, reqs, timeouts, keys, innerText, hasWrapped, config, narrow,
          detected, browserName, evCount, callSeq, hist, last>>

\* what the consumer, the window and the browser set
env == <<config, narrow, detected, browserName>>

\* the fields of the widget that cache a reading of the container
cached == <<innerText, hasWrapped>>

-----------------------------------------------------------------------------
(* Bounds of the model. *)

\* change events (keystrokes that change the text) in a run
MaxEvents == 2
\* config.onChange calls issued in a run
MaxCalls == 2

-----------------------------------------------------------------------------
(* Text. *)

SP == " "
NL == "\n"
ZWSP == "u200B"
AMP == "&"
APOS == "'"

\* /\s/ of getInnerText
IsWhitespace(c) == c \in {SP, NL}

RECURSIVE Concat(_)
Concat(ss) == IF ss = <<>> THEN <<>> ELSE Head(ss) \o Concat(Tail(ss))

\* Array.prototype.join
RECURSIVE Join(_, _)
Join(ss, sep) ==
    IF ss = <<>> THEN <<>>
    ELSE IF Len(ss) = 1 THEN Head(ss)
    ELSE Head(ss) \o sep \o Join(Tail(ss), sep)

MapSeq(s, F(_)) == [i \in 1..Len(s) |-> F(s[i])]

\* a replace that turns every run of whitespace into one space
RECURSIVE CollapseWhitespace(_)
CollapseWhitespace(t) ==
    IF t = <<>> THEN <<>>
    ELSE IF IsWhitespace(Head(t))
    THEN IF Len(t) > 1 /\ IsWhitespace(t[2])
         THEN CollapseWhitespace(Tail(t))
         ELSE <<SP>> \o CollapseWhitespace(Tail(t))
    ELSE <<Head(t)>> \o CollapseWhitespace(Tail(t))

\* String.prototype.replace(/\s/g, ' ')
ReplaceWhitespace(t) == [i \in 1..Len(t) |-> IF IsWhitespace(t[i]) THEN SP ELSE t[i]]

\* String.prototype.replace(/\u200B/g, '')
StripZWSP(t) == SelectSeq(t, LAMBDA c : c # ZWSP)

RECURSIVE TrimLeft(_)
TrimLeft(t) == IF t # <<>> /\ IsWhitespace(Head(t)) THEN TrimLeft(Tail(t)) ELSE t

RECURSIVE TrimRight(_)
TrimRight(t) ==
    IF t # <<>> /\ IsWhitespace(t[Len(t)]) THEN TrimRight(SubSeq(t, 1, Len(t) - 1)) ELSE t

\* String.prototype.trim
Trim(t) == TrimLeft(TrimRight(t))

-----------------------------------------------------------------------------
(* browser.ts and tokenizer-browser-quirks.ts: the capability table. *)

Browsers == {"chrome", "firefox", "safari", "edge", "ie", "phantomjs"}

\* the member names of the enum Browsers: a string enum has no other keys, its
\* values are not keys of it
BrowserKeys == {"Chrome", "Firefox", "Safari", "Edge", "IE", "Phantom"}

\* detect() found no browser in the user agent
NoBrowser == "null"

\* the module did not load: reading a property of null raised a TypeError
LoadError == "TypeError"

\* browser.ts: _browserName = detect().name, replaced by Browsers.Chrome when
\* Browsers[_browserName] is not truthy
ResolveBrowserName(found) ==
    IF found = NoBrowser THEN LoadError
    ELSE IF found \notin BrowserKeys THEN "chrome"
    ELSE found

isChrome == browserName = "chrome"

classes ==
    [SEPARATOR |-> "separator", TOKEN |-> "token", EDITED |-> "bk-edited-node",
     INCOMPLETE |-> "incomplete", NO_ANIMATION |-> "no-animation",
     REMOVED |-> "removed", EXTENSIBLE |-> "extensible"]

\* tag of the content and separator nodes
nodeTag == IF browserName = "ie" THEN "SPAN" ELSE "DIV"

\* text inside a separator: none in Chrome, a zero width space elsewhere
separatorText == IF isChrome THEN <<>> ELSE <<ZWSP>>

shouldReplaceNWSP == browserName \in {"firefox", "safari", "edge", "ie"}

-----------------------------------------------------------------------------
(* Markup. *)

\* lodash escape: & < > " ' become entities
EscapeChar(c) ==
    CASE c = AMP -> "&amp;"
      [] c = APOS -> "&#39;"
      [] OTHER -> c

escape(t) == [i \in 1..Len(t) |-> EscapeChar(t[i])]

\* the HTML parser: entities become characters again
UnescapeChar(c) ==
    CASE c = "&amp;" -> AMP
      [] c = "&#39;" -> APOS
      [] c = "&#8203;" -> ZWSP
      [] OTHER -> c

Unescape(t) == [i \in 1..Len(t) |-> UnescapeChar(t[i])]

\* the HTML serialiser of Element.innerHTML: in text only & < > and nbsp are escaped
SerializeChar(c) == IF c = AMP THEN "&amp;" ELSE c

SerializeText(t) == [i \in 1..Len(t) |-> SerializeChar(t[i])]

Elem(tag, idx, cls, inner) == [tag |-> tag, idx |-> idx, cls |-> cls, inner |-> inner]

separatorTemplate ==
    Elem(nodeTag, -1, <<classes.SEPARATOR>>, IF isChrome THEN <<>> ELSE <<"&#8203;">>)

\* an init-token that carries text
initTokenTplFilled == Elem(nodeTag, -1, <<"init-token">>, <<"x">>)

initTokenTpl == Elem(nodeTag, -1, <<"init-token">>, <<>>)

\* a token template that leaves the value out
getTokenTemplateEmpty(idx, tokenClass, value) == Elem(nodeTag, idx, tokenClass, <<>>)

getTokenTemplate(idx, tokenClass, value) == Elem(nodeTag, idx, tokenClass, value)

\* markup of one token with a separator after it, complete or not
ClassifyTokenSeparated(t, i) ==
    LET tokenClass ==
            <<classes.TOKEN, t.className>>
            \o (IF t.isExtensible THEN <<classes.EXTENSIBLE>> ELSE <<>>)
            \o (IF t.isIncomplete THEN <<classes.INCOMPLETE>> ELSE <<>>)
    IN  <<getTokenTemplate(i, tokenClass, escape(t.value)), separatorTemplate>>

\* markup of one token: its content node and, when complete, a separator
ClassifyToken(t, i) ==
    LET tokenClass ==
            <<classes.TOKEN, t.className>>
            \o (IF t.isExtensible THEN <<classes.EXTENSIBLE>> ELSE <<>>)
            \o (IF t.isIncomplete THEN <<classes.INCOMPLETE>> ELSE <<>>)
        token == getTokenTemplate(i, tokenClass, escape(t.value))
    IN  IF t.isIncomplete THEN <<token>> ELSE <<token, separatorTemplate>>

classify(tokenized) ==
    IF Len(tokenized) = 0 THEN <<initTokenTpl>>
    ELSE Concat([i \in 1..Len(tokenized) |-> ClassifyToken(tokenized[i], i - 1)])

-----------------------------------------------------------------------------
(* The container's child nodes. *)

\* a child node: an element, or a text node placed directly in the container
Node(tag, idx, cls, text) == [tag |-> tag, idx |-> idx, cls |-> cls, text |-> text]

IsElement(n) == n.tag # "#text"

HasClass(n, c) == \E j \in 1..Len(n.cls) : n.cls[j] = c

\* DOMTokenList.add
AddClass(n, c) == IF HasClass(n, c) THEN n ELSE [n EXCEPT !.cls = @ \o <<c>>]

\* DOMTokenList.remove
RemoveClass(n, c) == [n EXCEPT !.cls = SelectSeq(@, LAMBDA w : w # c)]

\* el.innerHTML = markup: the parser builds one element per description
ParseHtml(markup) ==
    [i \in 1..Len(markup) |->
        Node(markup[i].tag, markup[i].idx, markup[i].cls, Unescape(markup[i].inner))]

\* el.innerHTML = fullText, for a text without markup: one text node, or nothing
ParseText(t) == IF t = <<>> THEN <<>> ELSE <<Node("#text", -1, <<>>, t)>>

\* el.innerHTML read back
innerHTML(ns) ==
    [i \in 1..Len(ns) |-> Elem(ns[i].tag, ns[i].idx, ns[i].cls, SerializeText(ns[i].text))]

\* position of the first class word "edited" that follows a space, or 0
FirstEditedWord(cls) ==
    IF \E j \in 2..Len(cls) : cls[j] = "edited"
    THEN CHOOSE j \in 2..Len(cls) :
            cls[j] = "edited" /\ \A k \in 2..(j - 1) : cls[k] # "edited"
    ELSE 0

DropAt(s, j) == SubSeq(s, 1, j - 1) \o SubSeq(s, j + 1, Len(s))

\* String.prototype.replace(' edited', ''): the first occurrence of the literal
\* " edited" is cut out.  In this model's alphabet the literal can only be a class
\* word "edited" that is not the first of its attribute; the word
\* classes.EDITED ("bk-edited-node") does not contain it.
ReplaceEdited(markup) ==
    IF \E i \in 1..Len(markup) : FirstEditedWord(markup[i].cls) # 0
    THEN LET i == CHOOSE k \in 1..Len(markup) :
                    /\ FirstEditedWord(markup[k].cls) # 0
                    /\ \A m \in 1..(k - 1) : FirstEditedWord(markup[m].cls) = 0
         IN  [markup EXCEPT ![i].cls = DropAt(@, FirstEditedWord(@))]
    ELSE markup

\* el.children
children(ns) == SelectSeq(ns, IsElement)

\* el.textContent
textContent(ns) == Concat([i \in 1..Len(ns) |-> ns[i].text])

\* el.textContent for getInnerText
getInnerTextUnjoined(ns) == textContent(ns)

\* Tokenizer.getInnerText
getInnerText(ns) ==
    LET kids == children(ns)
        text ==
            IF Len(kids) > 0
            THEN ReplaceWhitespace(
                    Join(SelectSeq([i \in 1..Len(kids) |-> kids[i].text],
                                   LAMBDA t : t # <<>> /\ t # <<ZWSP>>),
                         <<SP>>))
            ELSE textContent(ns)
    IN  IF shouldReplaceNWSP THEN StripZWSP(text) ELSE text

\* Tokenizer.getNumTokens
getNumTokens(ns) == Len(children(ns))

\* Tokenizer.getContentNodes, as indices into the child nodes
getContentNodes(ns) ==
    LET Idx == {i \in 1..Len(ns) :
                    IsElement(ns[i]) /\ ns[i].cls # <<classes.SEPARATOR>>}
        RECURSIVE Sorted(_)
        Sorted(S) == IF S = {} THEN <<>>
                     ELSE LET m == CHOOSE x \in S : \A y \in S : x <= y
                          IN  <<m>> \o Sorted(S \ {m})
    IN  Sorted(Idx)

-----------------------------------------------------------------------------
(* The selection.  A boundary point [n, t, o] is in the container itself    *)
(* (n = 0, o a child index), in child node n (t = FALSE: o counts the       *)
(* child nodes of an element, or the characters of a text node placed       *)
(* directly in the container) or in the text node inside element n          *)
(* (t = TRUE, o counts characters).                                         *)

Pos(n, t, o) == [n |-> n, t |-> t, o |-> o]

NoSelection == [kind |-> "none", a |-> Pos(0, FALSE, 0), f |-> Pos(0, FALSE, 0)]

\* a selection in some other part of the document
OutsideSelection == [kind |-> "outside", a |-> Pos(0, FALSE, 0), f |-> Pos(0, FALSE, 0)]

Range(a, f) == [kind |-> "in", a |-> a, f |-> f]

Caret(p) == Range(p, p)

\* node.childNodes.length of an element child
ChildCount(n) == IF n.text = <<>> THEN 0 ELSE 1

\* node.nodeName === '#text'
IsTextPos(ns, p) == p.n > 0 /\ (p.t \/ ~IsElement(ns[p.n]))

\* the boundary points a selection can have in the container
Positions(ns) ==
    {Pos(0, FALSE, o) : o \in 0..Len(ns)}
    \cup UNION {
        IF IsElement(ns[i])
        THEN {Pos(i, FALSE, o) : o \in 0..ChildCount(ns[i])}
             \cup (IF ns[i].text = <<>> THEN {}
                   ELSE {Pos(i, TRUE, o) : o \in 0..Len(ns[i].text)})
        ELSE {Pos(i, FALSE, o) : o \in 0..Len(ns[i].text)}
        : i \in 1..Len(ns)}

\* document order of boundary points
PosKey(ns, p) ==
    IF p.n = 0 THEN <<2 * p.o, 0, 0>>
    ELSE IF IsTextPos(ns, p) THEN <<2 * p.n - 1, 1, p.o>>
    ELSE <<2 * p.n - 1, 2 * p.o, 0>>

KeyLeq(x, y) ==
    \/ x[1] < y[1]
    \/ x[1] = y[1] /\ x[2] < y[2]
    \/ x[1] = y[1] /\ x[2] = y[2] /\ x[3] <= y[3]

\* range.endContainer and range.endOffset of sel.getRangeAt(0)
RangeEnd(ns, s) == IF KeyLeq(PosKey(ns, s.a), PosKey(ns, s.f)) THEN s.f ELSE s.a

\* a reference to a node: null, a node outside the container, the container
\* itself, child node i, or a node that a render has detached
Ref(k, i) == [k |-> k, i |-> i]

NullRef == Ref("null", 0)

RECURSIVE PreviousElement(_, _)
\* node.previousElementSibling, as an index (0 when there is none)
PreviousElement(ns, i) ==
    IF i <= 1 THEN 0
    ELSE IF IsElement(ns[i - 1]) THEN i - 1 ELSE PreviousElement(ns, i - 1)

\* getClosestElementNode
getClosestElementNode(ns, i) ==
    IF PreviousElement(ns, i) # 0 THEN Ref("child", PreviousElement(ns, i))
    ELSE Ref("el", 0)

\* getCaretNode
getCaretNode(ns, s) ==
    IF s.kind = "none" THEN NullRef
    ELSE IF s.kind = "outside" THEN Ref("outside", 0)
    ELSE LET node == IF s.a.n = 0
                     THEN (IF Len(ns) > 0 THEN Pos(Len(ns), FALSE, 0) ELSE s.a)
                     ELSE s.a
         IN  IF node.n = 0 THEN Ref("el", 0)
             ELSE IF IsTextPos(ns, node)
                  THEN (IF IsElement(ns[node.n]) THEN Ref("child", node.n)
                        ELSE getClosestElementNode(ns, node.n))
                  ELSE Ref("child", node.n)

\* isCaretOnSeparator(container, targetNode)
isCaretOnSeparator(ns, targetNode) ==
    /\ targetNode.k = "child"
    /\ Len(ns[targetNode.i].cls) > 0
    /\ ns[targetNode.i].cls[1] = classes.SEPARATOR

\* isCaretOnEmptySeparator(container, targetNode)
isCaretOnEmptySeparator(ns, targetNode) ==
    /\ isCaretOnSeparator(ns, targetNode)
    /\ (ns[targetNode.i].text = <<ZWSP>> \/ ns[targetNode.i].text = <<>>)

\* a test that finds no range selection
neverRangeSelection(ns, s) == FALSE

\* isRangeSelection
isRangeSelection(ns, s) ==
    /\ s.kind = "in"
    /\ <<s.a.n, IsTextPos(ns, s.a)>> # <<s.f.n, IsTextPos(ns, s.f)>>

\* isCaretInContainer: "throw" when the selection has no anchor node
isCaretInContainer(s) ==
    CASE s.kind = "none" -> "throw"
      [] s.kind = "outside" -> "false"
      [] OTHER -> "true"

\* shouldDoSeparatorAllowance, for an element child
shouldDoSeparatorAllowance(n) ==
    isChrome /\ IsElement(n) /\ HasClass(n, classes.SEPARATOR)

\* the length the loop of getCaretPosition adds for a child element
ContentLength(n) == Len(n.text) + (IF shouldDoSeparatorAllowance(n) THEN 1 ELSE 0)

RECURSIVE SumLengths(_, _)
\* the lengths of the element children among the first k child nodes
SumLengths(ns, k) ==
    IF k = 0 THEN 0
    ELSE SumLengths(ns, k - 1) + (IF IsElement(ns[k]) THEN ContentLength(ns[k]) ELSE 0)

\* getCaretPosition: -1 stands for null
getCaretPosition(ns, s) ==
    IF s.kind = "none" THEN -1
    ELSE IF s.kind = "outside" THEN SumLengths(ns, Len(ns))
    ELSE LET e == RangeEnd(ns, s)
             isText == IsTextPos(ns, e)
             \* the element counted as endContainer: 0 is the container
             endContainer == IF isText /\ ~IsElement(ns[e.n]) THEN 0 ELSE e.n
             endOffset ==
                IF ~isText /\ e.o > 0
                THEN (IF e.n = 0 THEN Len(textContent(ns)) ELSE Len(ns[e.n].text))
                ELSE e.o
             allowance ==
                IF endContainer # 0 /\ shouldDoSeparatorAllowance(ns[endContainer])
                THEN 1 ELSE 0
             before == IF endContainer = 0 THEN Len(ns) ELSE endContainer - 1
         IN  SumLengths(ns, before) + endOffset + allowance

\* saveSelection
saveSelection(ns, s) == getCaretPosition(ns, s)

\* the node restoreSelection descends to from child node i: the text node of an
\* element that has one (t = TRUE), else the child node itself
DeepNode(ns, i) == Pos(i, IsElement(ns[i]) /\ ns[i].text # <<>>, 0)

\* currentNode.length is defined: the node is a text node
HasLength(ns, i) == ns[i].text # <<>> \/ ~IsElement(ns[i])

\* previousLength of restoreSelection for the node descended to from child i
PreviousLength(ns, i) ==
    IF ~HasLength(ns, i) /\ shouldDoSeparatorAllowance(ns[i]) THEN 1
    ELSE IF HasLength(ns, i) THEN Len(ns[i].text)
    ELSE 0

RECURSIVE RestoreLoop(_, _, _)
\* the for loop of restoreSelection from child i on: <<i, offset>> where it ends
RestoreLoop(ns, i, offset) ==
    LET off == IF i > 1 THEN offset - PreviousLength(ns, i - 1) ELSE offset
    IN  IF HasLength(ns, i) /\ off <= Len(ns[i].text) THEN <<i, off>>
        ELSE IF i = Len(ns) THEN <<i, off>>
        ELSE RestoreLoop(ns, i + 1, off)

\* restoreSelection: the selection afterwards; threw when range.setStart is
\* given an offset outside the node (IndexSizeError)
restoreSelection(ns, s, offset) ==
    IF Len(ns) = 0 THEN [threw |-> FALSE, sel |-> s]
    ELSE LET r == RestoreLoop(ns, 1, offset)
             i == r[1]
             off == IF ~HasLength(ns, i) /\ shouldDoSeparatorAllowance(ns[i])
                    THEN 0 ELSE r[2]
             max == IF HasLength(ns, i) THEN Len(ns[i].text) ELSE 0
         IN  IF off < 0 \/ off > max THEN [threw |-> TRUE, sel |-> s]
             ELSE [threw |-> FALSE,
                   sel |-> Caret([DeepNode(ns, i) EXCEPT !.o = off])]

\* getCaretTokenAndIsAtEndBoundary: the token as a reference, and isAtEnd
getCaretTokenAndIsAtEndBoundary(ns, s) ==
    IF s.kind = "none" THEN [token |-> NullRef, isAtEnd |-> FALSE]
    ELSE IF s.kind = "outside" THEN [token |-> Ref("outside", 0), isAtEnd |-> FALSE]
    ELSE IF IsTextPos(ns, s.a)
         THEN [token |-> IF IsElement(ns[s.a.n]) THEN Ref("child", s.a.n) ELSE Ref("el", 0),
               isAtEnd |-> s.a.o = Len(ns[s.a.n].text)]
         ELSE IF s.a.n = 0
              THEN [token |-> Ref("el", 0), isAtEnd |-> s.a.o = Len(ns)]
              ELSE [token |-> Ref("child", s.a.n), isAtEnd |-> s.a.o = ChildCount(ns[s.a.n])]

\* isCaretAtTheEndOfCompleteToken that counts an extensible token as a
\* complete one whatever its argument
isCaretAtTheEndOfCompleteTokenOfAny(ns, s, extensibleAsIncomplete) ==
    LET r == getCaretTokenAndIsAtEndBoundary(ns, s)
    IN  IF r.token.k = "null" THEN "throw"
        ELSE IF /\ r.token.k = "child"
                /\ ~HasClass(ns[r.token.i], classes.INCOMPLETE)
                /\ HasClass(ns[r.token.i], classes.TOKEN)
                /\ r.isAtEnd
             THEN "true"
             ELSE "false"

\* isCaretAtTheEndOfCompleteToken: "throw" when there is no caret token
isCaretAtTheEndOfCompleteToken(ns, s, extensibleAsIncomplete) ==
    LET r == getCaretTokenAndIsAtEndBoundary(ns, s)
    IN  IF r.token.k = "null" THEN "throw"
        ELSE IF /\ r.token.k = "child"
                /\ ~HasClass(ns[r.token.i], classes.INCOMPLETE)
                /\ HasClass(ns[r.token.i], classes.TOKEN)
                /\ ~(extensibleAsIncomplete /\ HasClass(ns[r.token.i], classes.EXTENSIBLE))
                /\ r.isAtEnd
             THEN "true"
             ELSE "false"

\* moveCursorOutFromTokenEnd (the Chrome row): the caret collapses after the
\* element that holds the anchor
moveCursorOutFromTokenEnd(ns, s) ==
    IF s.kind # "in" THEN s
    ELSE IF s.a.n = 0 \/ (IsTextPos(ns, s.a) /\ ~IsElement(ns[s.a.n])) THEN OutsideSelection
    ELSE Caret(Pos(0, FALSE, s.a.n))

\* moveCursorIntoTokenEnd (the Chrome row): the caret goes to the end of the
\* anchor node's previous sibling, when it has one
moveCursorIntoTokenEnd(ns, s) ==
    IF s.kind # "in" \/ s.a.n = 0 THEN s
    ELSE IF s.a.t \/ s.a.n = 1 THEN s
    ELSE LET target == s.a.n - 1
         IN  Caret(Pos(target, FALSE,
                       IF IsElement(ns[target]) THEN ChildCount(ns[target])
                       ELSE Len(ns[target].text)))

\* moveCursorToTheEndOfInput(container), for the container (i = 0) or child i:
\* selectNodeContents, then collapse to the end
moveCursorToTheEndOfInput(ns, i) ==
    IF i = 0 THEN Caret(Pos(0, FALSE, Len(ns)))
    ELSE Caret(Pos(i, FALSE,
                   IF IsElement(ns[i]) THEN ChildCount(ns[i]) ELSE Len(ns[i].text)))

\* moveCursorToEndOfToken
moveCursorToEndOfToken(ns, i) == moveCursorToTheEndOfInput(ns, i)

\* putCaretOnNodeStart: the node's contents are selected
putCaretOnNodeStart(ns, i) ==
    Range(Pos(i, FALSE, 0),
          Pos(i, FALSE, IF IsElement(ns[i]) THEN ChildCount(ns[i]) ELSE Len(ns[i].text)))

\* a caret left at the end of the container
cursorLeftAtEnd == Caret(Pos(0, FALSE, 1))

\* removeCursor
removeCursor == NoSelection

\* the selection after every child node of the container was replaced: a
\* boundary point inside the container moves to the container's start
SelectionAfterReplace(s) == IF s.kind = "in" THEN Caret(Pos(0, FALSE, 0)) ELSE s

-----------------------------------------------------------------------------
(* The widget's view of the document: D = [nodes, sel, editedNode].  The    *)
(* operators below are the methods of Tokenizer that change it.             *)

Doc(ns, s, e) == [nodes |-> ns, sel |-> s, editedNode |-> e]

\* Tokenizer.setEditedNode(node, doNotAnimate)
setEditedNode(D, node, doNotAnimate) ==
    IF node = D.editedNode THEN D
    ELSE LET cleared ==
                IF D.editedNode.k = "child"
                THEN [D.nodes EXCEPT ![D.editedNode.i] =
                        RemoveClass(RemoveClass(@, classes.EDITED), classes.NO_ANIMATION)]
                ELSE D.nodes
             marked ==
                IF node.k = "child"
                THEN [cleared EXCEPT ![node.i] =
                        AddClass(IF doNotAnimate THEN AddClass(@, classes.NO_ANIMATION) ELSE @,
                                 classes.EDITED)]
                ELSE cleared
         IN  Doc(marked, D.sel, node)

\* Tokenizer.fixSavedSelection
fixSavedSelection(savedSel, searchQuery) ==
    IF savedSel > Len(searchQuery)
    THEN [savedSel |-> Len(searchQuery), isFixed |-> TRUE]
    ELSE [savedSel |-> savedSel, isFixed |-> FALSE]

\* the assignment this.innerHtml = value of tokenizeDisplay and clear: every
\* child node is replaced; a reference to an old child is left detached
SetInnerHtml(D, newNodes) ==
    Doc(newNodes, SelectionAfterReplace(D.sel),
        IF D.editedNode.k = "child" THEN Ref("detached", 0) ELSE D.editedNode)

\* the part of tokenizeDisplay after the markup was replaced, for a saved
\* offset: the search query is built (Query), the offset is fixed against it
\* (Fix), the caret is restored (Restore) and a caret that is now at the end of
\* a complete token leaves the token (Hop)
RestoreCaret(D, tokens, savedSel) ==
    LET Hop(r, atEnd) ==
            IF r.threw \/ atEnd = "throw"
            THEN [doc |-> Doc(D.nodes, r.sel, D.editedNode), threw |-> TRUE]
            ELSE [doc |-> Doc(D.nodes,
                              IF atEnd = "true" THEN moveCursorOutFromTokenEnd(D.nodes, r.sel)
                              ELSE r.sel,
                              D.editedNode),
                  threw |-> FALSE]
        Restore(r, isFixed) ==
            Hop(r, IF r.threw THEN "false"
                   ELSE isCaretAtTheEndOfCompleteToken(D.nodes, r.sel, ~isFixed))
        Fix(fixed) ==
            Restore(restoreSelection(D.nodes, D.sel, fixed.savedSel), fixed.isFixed)
        Query(joined) ==
            IF Len(tokens) > 0 /\ ~tokens[Len(tokens)].isIncomplete
            THEN Trim(joined) ELSE joined
    IN  Fix(fixSavedSelection(savedSel,
                              Query(Join([i \in 1..Len(tokens) |-> tokens[i].value], <<SP>>))))

\* tokenizeDisplay that captures and restores the caret whether or not the
\* widget has the focus
tokenizeDisplayWithoutFocus(D, hasFocus, tokens, doNotRestoreCaret) ==
    LET Restored(r) ==
            [doc |-> r.doc, mutated |-> TRUE, saved |-> TRUE, threw |-> r.threw]
        Replace(replaced, savedSel, doNotRestore) ==
            IF savedSel > 0
            THEN Restored(RestoreCaret(replaced, tokens, savedSel))
            ELSE [doc |-> replaced, mutated |-> TRUE, saved |-> ~doNotRestore,
                  threw |-> FALSE]
        Save(styledText, inContainer) ==
            IF inContainer = "throw"
            THEN [doc |-> D, mutated |-> FALSE, saved |-> FALSE, threw |-> TRUE]
            ELSE Replace(SetInnerHtml(D, ParseHtml(styledText)),
                         IF inContainer = "false" THEN -1 ELSE saveSelection(D.nodes, D.sel),
                         inContainer = "false")
        Render(styledText) ==
            IF styledText = ReplaceEdited(innerHTML(D.nodes))
            THEN [doc |-> D, mutated |-> FALSE, saved |-> FALSE, threw |-> FALSE]
            ELSE Save(styledText,
                      IF doNotRestoreCaret THEN "false"
                      ELSE isCaretInContainer(D.sel))
    IN  Render(classify(tokens))

\* Tokenizer.tokenizeDisplay(tokens, doNotRestoreCaret), with hasFocus() given:
\* the document afterwards, whether the markup was replaced (mutated), whether
\* the caret offset was captured (saved) and whether an exception left the
\* method.  Render compares the markup, Save decides on the caret and captures
\* it, Replace assigns the markup and restores the caret
tokenizeDisplay(D, hasFocus, tokens, doNotRestoreCaret) ==
    LET Restored(r) ==
            [doc |-> r.doc, mutated |-> TRUE, saved |-> TRUE, threw |-> r.threw]
        Replace(replaced, savedSel, doNotRestore) ==
            IF savedSel > 0
            THEN Restored(RestoreCaret(replaced, tokens, savedSel))
            ELSE [doc |-> replaced, mutated |-> TRUE, saved |-> ~doNotRestore,
                  threw |-> FALSE]
        Save(styledText, inContainer) ==
            IF inContainer = "throw"
            THEN [doc |-> D, mutated |-> FALSE, saved |-> FALSE, threw |-> TRUE]
            ELSE Replace(SetInnerHtml(D, ParseHtml(styledText)),
                         IF inContainer = "false" THEN -1 ELSE saveSelection(D.nodes, D.sel),
                         inContainer = "false")
        Render(styledText) ==
            IF styledText = ReplaceEdited(innerHTML(D.nodes))
            THEN [doc |-> D, mutated |-> FALSE, saved |-> FALSE, threw |-> FALSE]
            ELSE Save(styledText,
                      IF doNotRestoreCaret \/ ~hasFocus THEN "false"
                      ELSE isCaretInContainer(D.sel))
    IN  Render(classify(tokens))

-----------------------------------------------------------------------------
(* Inputs. *)

Tok(value, className, isIncomplete, isExtensible) ==
    [value |-> value, className |-> className,
     isIncomplete |-> isIncomplete, isExtensible |-> isExtensible]

\* two complete tokens, as in the test suite's initialInput
TwoComplete == <<Tok(<<"a">>, "class1", FALSE, FALSE), Tok(<<"b">>, "class2", FALSE, FALSE)>>

\* a complete token followed by an incomplete one
LastIncomplete == <<Tok(<<"a">>, "class1", FALSE, FALSE), Tok(<<"c", "d">>, "class2", TRUE, FALSE)>>

\* a token without a value, extensible, before a complete token
EmptyValue == <<Tok(<<>>, "class1", FALSE, TRUE), Tok(<<"b">>, "class2", FALSE, FALSE)>>

\* the token sequences the consumer supplies: as initialInput, to updateDisplay
\* and as the result of config.onChange
TokenSeqs == {<<>>, TwoComplete, LastIncomplete, EmptyValue}

\* a complete token that is extensible, before an incomplete one
Extensible == <<Tok(<<"a">>, "class1", FALSE, TRUE), Tok(<<"c">>, "class2", TRUE, FALSE)>>

\* two incomplete tokens: the first is not the last of its sequence
TwoIncomplete == <<Tok(<<"a">>, "class1", TRUE, FALSE), Tok(<<"b">>, "class2", TRUE, FALSE)>>

\* a token whose value holds a line break
WithLineBreak == <<Tok(<<"a", NL, "b">>, "class1", FALSE, FALSE)>>

\* the texts the consumer passes to updateText
Texts == {<<"a", SP, "b">>, <<>>}

\* the characters the user types
TypedChars == {"x"}

-----------------------------------------------------------------------------
(* Observers. *)

NoCall == [issued |-> FALSE, text |-> <<>>, caret |-> 0, sep |-> FALSE]

\* config.onChange(text, caret, sep)
Call(text, caret, sep) == [issued |-> TRUE, text |-> text, caret |-> caret, sep |-> sep]

\* Tokenizer.onCaretPositionChanged: the arguments it passes to
\* config.onCaretPositionChanged, the text being this.innerText
onCaretPositionChanged(D, text) ==
    Call(text, getCaretPosition(D.nodes, D.sel),
         isCaretOnSeparator(D.nodes, getCaretNode(D.nodes, D.sel)))

\* what a step did: the operation, the change event (ev) and the config.onChange
\* call (seq) it belongs to, whether the widget replaced or removed child nodes
\* (mutated), whether tokenizeDisplay ran (render), the consumer callbacks it
\* invoked (cbs), the config.onChange call it issued, whether the event's
\* default action was prevented, and the tokens the consumer passed to the
\* constructor or to updateDisplay, or resolved a refreshTokens call with, the
\* text that resolved call had passed (query), the index and the flag passed
\* to updateDisplay (idx, refresh), the key of a keydown event with the answer
\* config.onKeyDown has for it (key, proceed), and how a call of
\* getTokenPosition(idx), selectNodeByIdx(idx) or updateDisplay ended (result),
\* the offset passed to selectNodeByIdx (offset), and the arguments of the
\* config.onCaretPositionChanged call it made (report; no handler makes two)
Step(op) ==
    [op |-> op, ev |-> 0, seq |-> 0, mutated |-> FALSE, render |-> FALSE,
     cbs |-> <<>>, call |-> NoCall, prevented |-> FALSE, tokens |-> <<>>,
     query |-> <<>>, idx |-> -1, refresh |-> FALSE, key |-> "none", proceed |-> TRUE,
     result |-> "none", offset |-> 0, report |-> NoCall]

D0 == Doc(nodes, sel, editedNode)

SetDoc(D) ==
    /\ nodes' = D.nodes
    /\ sel' = D.sel
    /\ editedNode' = D.editedNode

\* a callback passed to setTimeout that has not run yet: the deferred focus of
\* the constructor, or the deferred part of a click on a token (its target); or
\* the wait of debounceTime(60) after a resize of the window
Timeout(kind, target) == [kind |-> kind, target |-> target]

\* child references held by pending timeouts after a render replaced the nodes
DetachTargets(ts, mutated) ==
    IF mutated
    THEN {[t EXCEPT !.target = IF @.k = "child" THEN Ref("detached", 0) ELSE @] : t \in ts}
    ELSE ts

-----------------------------------------------------------------------------
(* Construction. *)

\* the callbacks of TokenizerConfig
Callbacks ==
    {"onChange", "onKeyDown", "onFocusChanged", "onWrap", "onCaretPositionChanged",
     "onMouseOverToken", "onMouseOutTokenizer"}

\* defaultConfig of tokenizer-config: a function that does nothing for every
\* callback but onChange
defaultConfig == Callbacks \ {"onChange"}

\* the config taken as it was supplied, without the defaults
AssignWithoutDefaults(defaults, supplied) == supplied

\* Object.assign({}, defaultConfig, config), as the callbacks that are functions
\* in the result
AssignConfig(defaults, supplied) == defaults \cup supplied

\* the config of the test suite: every callback but the two of the pointer
TestConfig == Callbacks \ {"onMouseOverToken", "onMouseOutTokenizer"}

\* offsetTop of child i: in a narrow window every element child is on a line of
\* its own (20px), else all are on the first line
offsetTop(ns, i, isNarrow) ==
    IF isNarrow THEN 20 * (Len(children(SubSeq(ns, 1, i))) - 1) ELSE 0

\* setHasWrapped reporting the wrap state on every check
setHasWrappedAlways(ns, isNarrow, isDefined, current) ==
    LET kids == {i \in 1..Len(ns) : IsElement(ns[i])}
        firstChild == CHOOSE i \in kids : \A j \in kids : i <= j
        lastChild == CHOOSE i \in kids : \A j \in kids : j <= i
        computed ==
            IF kids = {} THEN FALSE
            ELSE offsetTop(ns, firstChild, isNarrow) + 1 < offsetTop(ns, lastChild, isNarrow)
    IN  [hasWrapped |-> computed, cbs |-> <<"onWrap">>]

\* Tokenizer.setHasWrapped, given this.hasWrapped (current, and whether it is
\* defined): the value it leaves in this.hasWrapped and the callback it invokes
setHasWrapped(ns, isNarrow, isDefined, current) ==
    LET kids == {i \in 1..Len(ns) : IsElement(ns[i])}
        firstChild == CHOOSE i \in kids : \A j \in kids : i <= j
        lastChild == CHOOSE i \in kids : \A j \in kids : j <= i
        computed ==
            IF kids = {} THEN FALSE
            ELSE offsetTop(ns, firstChild, isNarrow) + 1 < offsetTop(ns, lastChild, isNarrow)
    IN  [hasWrapped |-> computed,
         cbs |-> IF ~isDefined \/ current # computed THEN <<"onWrap">> ELSE <<>>]

\* new Tokenizer(el, config) on an empty container: the initial render does not
\* restore the caret and assigns innerText, the wrap state is reported for the
\* first time; with isFocused the focus is deferred to a timeout
Construct(Inputs, Focus, Configs, Viewports) ==
    \E initialInput \in Inputs, isFocused \in Focus, supplied \in Configs,
       isNarrow \in Viewports :
        /\ nodes = tokenizeDisplay(Doc(<<>>, NoSelection, NullRef), FALSE, initialInput, TRUE).doc.nodes
        /\ innerText = getInnerText(nodes)
        /\ hasWrapped = setHasWrapped(nodes, isNarrow, FALSE, FALSE).hasWrapped
        /\ config = AssignConfig(defaultConfig, supplied)
        /\ narrow = isNarrow
        /\ sel = NoSelection
        /\ focused = FALSE
        /\ editedNode = NullRef
        /\ isComposingIME = FALSE
        /\ subscribed = TRUE
        /\ keyupsOpen = TRUE
        /\ tasks = {}
        /\ reqs = {}
        /\ timeouts = IF isFocused THEN {Timeout("focus", NullRef)} ELSE {}
        /\ keys = [open |-> TRUE, debounce |-> "idle", trailing |-> "none", nav |-> "none"]
        /\ evCount = 0
        /\ callSeq = 0
        /\ hist = [called |-> <<>>, cancelled |-> {}, qualified |-> {}, rejected |-> {},
                   destroyedAt |-> -1]
        /\ last = [Step("construct") EXCEPT !.mutated = TRUE, !.render = TRUE,
                                            !.tokens = initialInput,
                                            !.cbs = <<"onWrap">>]

\* the page could not load the widget's modules: its container stays an empty
\* element without listeners
NotConstructed ==
    /\ nodes = <<>>
    /\ innerText = <<>>
    /\ hasWrapped = FALSE
    /\ config = {}
    /\ narrow = FALSE
    /\ sel = NoSelection
    /\ focused = FALSE
    /\ editedNode = NullRef
    /\ isComposingIME = FALSE
    /\ subscribed = FALSE
    /\ keyupsOpen = FALSE
    /\ tasks = {}
    /\ reqs = {}
    /\ timeouts = {}
    /\ keys = [open |-> FALSE, debounce |-> "idle", trailing |-> "none", nav |-> "none"]
    /\ evCount = 0
    /\ callSeq = 0
    /\ hist = [called |-> <<>>, cancelled |-> {}, qualified |-> {}, rejected |-> {},
               destroyedAt |-> -1]
    /\ last = [Step("load") EXCEPT !.result = "raised"]

\* the page loads browser.ts in a browser that detect() names as one of Found
\* and then, when the module loaded, constructs the widget
InitLoaded(Found, Inputs, Focus, Configs, Viewports) ==
    \E found \in Found :
        /\ detected = found
        /\ browserName = ResolveBrowserName(found)
        /\ IF browserName = LoadError THEN NotConstructed
           ELSE Construct(Inputs, Focus, Configs, Viewports)

\* the widget in Chrome
InitWith(Inputs, Focus, Configs, Viewports) ==
    InitLoaded({"chrome"}, Inputs, Focus, Configs, Viewports)

\* the widget of the test suite in a window that is not narrow
InitOf(Inputs, Focus) == InitWith(Inputs, Focus, {TestConfig}, {FALSE})

-----------------------------------------------------------------------------
(* Focus. *)

\* el.blur(): when the container has the focus it loses it, and the blur
\* subscription (setupBlur) checks the wrap state, reports the blur and clears
\* the edited node
Blur(D, hasFocus, isSubscribed) ==
    IF hasFocus /\ isSubscribed
    THEN [doc |-> setEditedNode(D, NullRef, FALSE),
          cbs |-> setHasWrapped(D.nodes, narrow, TRUE, hasWrapped).cbs \o <<"onFocusChanged">>,
          hasWrapped |-> setHasWrapped(D.nodes, narrow, TRUE, hasWrapped).hasWrapped]
    ELSE [doc |-> D, cbs |-> <<>>, hasWrapped |-> hasWrapped]

-----------------------------------------------------------------------------
(* refreshTokens and the public operations that use it. *)

\* the synchronous part of Tokenizer.refreshTokens: the config.onChange call
RefreshCall(D, queryText) ==
    LET With(caretPosition) ==
            Call(queryText,
                 IF caretPosition > 0 THEN caretPosition ELSE 0,
                 caretPosition > 0 /\ isCaretOnSeparator(D.nodes, getCaretNode(D.nodes, D.sel)))
    IN  With(getCaretPosition(D.nodes, D.sel))

\* a refreshTokens call awaiting its tokens: the call, the operation that made
\* it and the text it passed to config.onChange
Req(seq, src, text) == [seq |-> seq, src |-> src, text |-> text]

\* Tokenizer.updateText(fullText)
UpdateTextOf(FullTexts) ==
    \E fullText \in FullTexts :
        /\ callSeq < MaxCalls
        /\ \E replaced \in {SetInnerHtml(D0, ParseText(fullText))} :
           \E D1 \in {Doc(replaced.nodes, removeCursor, replaced.editedNode)} :
           \E b \in {Blur(D1, focused, subscribed)} :
               /\ SetDoc(b.doc)
               /\ last' = [Step("updateText") EXCEPT
                            !.mutated = TRUE, !.seq = callSeq + 1,
                            !.call = RefreshCall(D1, fullText),
                            !.cbs = <<"onChange">> \o b.cbs]
               /\ hasWrapped' = b.hasWrapped
        /\ innerText' = getInnerText(ParseText(fullText))
        /\ focused' = FALSE
        /\ callSeq' = callSeq + 1
        /\ reqs' = reqs \cup {Req(callSeq + 1, "updateText", fullText)}
        /\ timeouts' = DetachTargets(timeouts, TRUE)
        /\ UNCHANGED <<env, keys, isComposingIME, subscribed, keyupsOpen, tasks, evCount, hist>>

\* a caret placement that takes an index that names no content node for the
\* last content node
putCaretAfterLastToken(D, idx) ==
    LET content == getContentNodes(D.nodes)
    IN  [D EXCEPT !.sel = moveCursorToEndOfToken(D.nodes, content[Len(content)])]

\* Tokenizer.putCaretAfterTokenIndex(idx)
putCaretAfterTokenIndex(D, idx) ==
    LET content == getContentNodes(D.nodes)
    IN  IF idx < 0 \/ idx >= Len(content) THEN D
        ELSE LET i == content[idx + 1]
                 hasSeparator == /\ i < Len(D.nodes)
                                 /\ IsElement(D.nodes[i + 1])
                                 /\ HasClass(D.nodes[i + 1], classes.SEPARATOR)
             IN  [D EXCEPT !.sel = IF hasSeparator THEN putCaretOnNodeStart(D.nodes, i + 1)
                                   ELSE moveCursorToEndOfToken(D.nodes, i)]

\* Tokenizer.updateDisplay(tokens, tokenIdx, refreshTokens); tokenIdx -1 stands
\* for an index that is omitted
UpdateDisplayOf(Tokens, Indices, Refresh) ==
    \E tokens \in Tokens, tokenIdx \in Indices, refreshTokens \in Refresh :
        /\ refreshTokens => callSeq < MaxCalls
        /\ \E td \in {tokenizeDisplay(D0, focused, tokens, FALSE)} :
           \E D1 \in {putCaretAfterTokenIndex(td.doc, tokenIdx)} :
           \E calls \in {refreshTokens /\ ~td.threw} :
               /\ SetDoc(IF td.threw THEN td.doc ELSE D1)
               /\ last' = [Step("updateDisplay") EXCEPT
                            !.mutated = td.mutated, !.render = TRUE, !.tokens = tokens,
                            !.idx = tokenIdx, !.refresh = refreshTokens,
                            !.result = IF td.threw THEN "raised" ELSE "done",
                            !.seq = IF calls THEN callSeq + 1 ELSE 0,
                            !.call = IF calls
                                     THEN RefreshCall(D1, Join([i \in 1..Len(tokens) |->
                                                                 tokens[i].value], <<SP>>))
                                     ELSE NoCall,
                            !.cbs = IF calls THEN <<"onChange">> ELSE <<>>]
               /\ callSeq' = IF calls THEN callSeq + 1 ELSE callSeq
               /\ reqs' = IF calls
                          THEN reqs \cup {Req(callSeq + 1, "updateDisplay",
                                              Join([i \in 1..Len(tokens) |->
                                                      tokens[i].value], <<SP>>))}
                          ELSE reqs
               /\ timeouts' = DetachTargets(timeouts, td.mutated)
               /\ innerText' = IF td.mutated THEN getInnerText(td.doc.nodes) ELSE innerText
        /\ UNCHANGED <<env, hasWrapped, keys, focused, isComposingIME, subscribed, keyupsOpen,
                       tasks, evCount, hist>>

\* Tokenizer.clear(): the result of config.onChange is not used
Clear ==
    /\ callSeq < MaxCalls
    /\ \E replaced \in {SetInnerHtml(D0, ParseHtml(<<initTokenTpl>>))} :
           SetDoc([replaced EXCEPT !.sel = moveCursorToTheEndOfInput(replaced.nodes, 0)])
    /\ last' = [Step("clear") EXCEPT
                    !.mutated = TRUE, !.seq = callSeq + 1,
                    !.call = Call(<<>>, 0, FALSE), !.cbs = <<"onChange">>]
    /\ innerText' = getInnerText(ParseHtml(<<initTokenTpl>>))
    /\ callSeq' = callSeq + 1
    /\ timeouts' = DetachTargets(timeouts, TRUE)
    /\ UNCHANGED <<env, hasWrapped, keys, focused, isComposingIME, subscribed, keyupsOpen,
                   tasks, reqs, evCount, hist>>

\* the rest of Tokenizer.refreshTokens, once config.onChange has resolved
RefreshResolveOf(Tokens) ==
    \E r \in reqs, tokens \in Tokens :
        /\ \E td \in {tokenizeDisplay(D0, focused, tokens, FALSE)} :
               /\ SetDoc(IF focused /\ ~td.threw
                         THEN setEditedNode(td.doc, getCaretNode(td.doc.nodes, td.doc.sel), FALSE)
                         ELSE td.doc)
               /\ last' = [Step("refreshResolve") EXCEPT
                            !.seq = r.seq, !.mutated = td.mutated, !.render = TRUE,
                            !.tokens = tokens, !.query = r.text]
               /\ timeouts' = DetachTargets(timeouts, td.mutated)
               /\ innerText' = IF td.mutated THEN getInnerText(td.doc.nodes) ELSE innerText
        /\ reqs' = reqs \ {r}
        /\ UNCHANGED <<env, hasWrapped, keys, focused, isComposingIME, subscribed, keyupsOpen, tasks,
                       evCount, callSeq, hist>>

\* config.onChange rejected: the promise of refreshTokens rejects, nothing is rendered
RefreshReject ==
    \E r \in reqs :
        /\ reqs' = reqs \ {r}
        /\ last' = [Step("refreshReject") EXCEPT !.seq = r.seq]
        /\ UNCHANGED <<env, cached, keys, nodes, sel, focused, editedNode, isComposingIME, subscribed,
                       keyupsOpen, tasks, timeouts, evCount, callSeq, hist>>

-----------------------------------------------------------------------------
(* The change-event pipeline of setupOnChange:                              *)
(*   fromEvent(el, changeEventName).filter(not composing)                   *)
(*     .switchMap(e => timer(typingDebounce).flatMap(() =>                  *)
(*                        doAsyncMacrotask(() => config.onChange(..))))     *)
(*     .subscribe(tokens => ..)                                             *)
(* A cycle is a timer, then a macrotask queued by doAsyncMacrotask, then a  *)
(* config.onChange promise.  Unsubscribing the inner observable (a later    *)
(* event, destroy, an error) clears a timer; a queued macrotask and a       *)
(* promise cannot be cancelled: they run, and what they deliver is dropped  *)
(* because the inner subscriber is closed (live = FALSE).                   *)

\* a filter that lets every event pass
EveryEventPasses(composing) == TRUE

\* .filter(e => !this.isComposingIME), the first operator of the change-event
\* chain and of the keydown chain
NotComposing(composing) == ~composing

Task(ev, stage, text, caret, live, seq) ==
    [ev |-> ev, stage |-> stage, text |-> text, caret |-> caret, live |-> live, seq |-> seq]

\* an unsubscribe that clears the timer and leaves the inner subscriber open
UnsubscribeLeavesOpen(ts) == {u \in ts : u.stage # "timer"}

\* an unsubscribe that closes the inner subscriber and leaves the timer running
UnsubscribeLeavesTimer(ts) == {[t EXCEPT !.live = FALSE] : t \in ts}

\* switchMap unsubscribes the inner observable of the previous event
Unsubscribe(ts) == {[t EXCEPT !.live = FALSE] : t \in {u \in ts : u.stage # "timer"}}

CancelledTimers(ts) == {t.ev : t \in {u \in ts : u.stage = "timer"}}

InsertAt(s, k, x) == SubSeq(s, 1, k) \o <<x>> \o SubSeq(s, k + 1, Len(s))

\* a reference to child i after a node was inserted behind child k
ShiftRefUp(r, k) == IF r.k = "child" /\ r.i > k THEN Ref("child", r.i + 1) ELSE r

\* typing at this caret makes the browser insert a new text node in the container
TypingInsertsNode(D) ==
    D.sel.a.n = 0 /\ ~(D.sel.a.o >= 1 /\ ~IsElement(D.nodes[D.sel.a.o]))

\* the browser inserts the typed character c at the caret
TypeChar(D, c) ==
    LET p == D.sel.a
        ns == D.nodes
    IN  IF p.n = 0
        THEN IF p.o >= 1 /\ ~IsElement(ns[p.o])
             THEN Doc([ns EXCEPT ![p.o].text = @ \o <<c>>],
                      Caret(Pos(p.o, FALSE, Len(ns[p.o].text) + 1)), D.editedNode)
             ELSE Doc(InsertAt(ns, p.o, Node("#text", -1, <<>>, <<c>>)),
                      Caret(Pos(p.o + 1, FALSE, 1)), ShiftRefUp(D.editedNode, p.o))
        ELSE IF IsTextPos(ns, p)
        THEN Doc([ns EXCEPT ![p.n].text = InsertAt(@, p.o, c)],
                 Caret([p EXCEPT !.o = p.o + 1]), D.editedNode)
        ELSE IF p.o = 0
        THEN Doc([ns EXCEPT ![p.n].text = <<c>> \o @], Caret(Pos(p.n, TRUE, 1)), D.editedNode)
        ELSE Doc([ns EXCEPT ![p.n].text = @ \o <<c>>],
                 Caret(Pos(p.n, TRUE, Len(ns[p.n].text) + 1)), D.editedNode)

\* the user types a character: the browser changes the text and dispatches the
\* change event; outside IME composition the handler captures text and caret and
\* starts the debounce timer of a new cycle
InputEvent ==
    \E c \in TypedChars :
        /\ evCount < MaxEvents
        /\ focused
        /\ sel.kind = "in" /\ sel.a = sel.f
        /\ \E D1 \in {TypeChar(D0, c)} :
           \E qualifies \in {subscribed /\ keyupsOpen /\ NotComposing(isComposingIME)} :
               /\ SetDoc(D1)
               /\ timeouts' = IF TypingInsertsNode(D0)
                              THEN {[t EXCEPT !.target = ShiftRefUp(@, sel.a.o)] : t \in timeouts}
                              ELSE timeouts
               /\ tasks' = IF qualifies
                           THEN Unsubscribe(tasks)
                                \cup {Task(evCount + 1, "timer", getInnerText(D1.nodes),
                                           getCaretPosition(D1.nodes, D1.sel), TRUE, 0)}
                           ELSE tasks
               /\ hist' = IF qualifies
                          THEN [hist EXCEPT !.cancelled = @ \cup CancelledTimers(tasks),
                                            !.qualified = @ \cup {evCount + 1}]
                          ELSE hist
        /\ evCount' = evCount + 1
        /\ last' = [Step("input") EXCEPT !.ev = evCount + 1]
        /\ UNCHANGED <<env, cached, keys, focused, isComposingIME, subscribed, keyupsOpen, reqs, callSeq>>

\* the debounce timer fires: flatMap calls doAsyncMacrotask, which queues a macrotask
TimerFire ==
    \E t \in tasks :
        /\ t.stage = "timer"
        /\ tasks' = (tasks \ {t}) \cup {[t EXCEPT !.stage = "macrotask"]}
        /\ last' = [Step("timerFire") EXCEPT !.ev = t.ev]
        /\ UNCHANGED <<env, cached, keys, nodes, sel, focused, editedNode, isComposingIME, subscribed,
                       keyupsOpen, reqs, timeouts, evCount, callSeq, hist>>

\* a macrotask that makes no call for a cycle that was unsubscribed
MacrotaskRunOfLiveCycle ==
    \E t \in tasks :
        /\ t.stage = "macrotask"
        /\ callSeq < MaxCalls
        /\ tasks' = IF t.live
                    THEN (tasks \ {t}) \cup {[t EXCEPT !.stage = "inflight", !.seq = callSeq + 1]}
                    ELSE tasks \ {t}
        /\ callSeq' = IF t.live THEN callSeq + 1 ELSE callSeq
        /\ hist' = IF t.live THEN [hist EXCEPT !.called = Append(@, t.ev)] ELSE hist
        /\ last' = IF t.live
                   THEN [Step("macrotask") EXCEPT
                            !.ev = t.ev, !.seq = callSeq + 1,
                            !.call = Call(t.text, t.caret, FALSE), !.cbs = <<"onChange">>]
                   ELSE [Step("macrotask") EXCEPT !.ev = t.ev]
        /\ UNCHANGED <<env, cached, keys, nodes, sel, focused, editedNode, isComposingIME, subscribed,
                       keyupsOpen, reqs, timeouts, evCount>>

\* a macrotask that reads the text and the caret when it runs
MacrotaskRunReadsCurrent ==
    \E t \in tasks :
        /\ t.stage = "macrotask"
        /\ callSeq < MaxCalls
        /\ tasks' = (tasks \ {t}) \cup {[t EXCEPT !.stage = "inflight", !.seq = callSeq + 1]}
        /\ callSeq' = callSeq + 1
        /\ hist' = [hist EXCEPT !.called = Append(@, t.ev)]
        /\ last' = [Step("macrotask") EXCEPT
                        !.ev = t.ev, !.seq = callSeq + 1,
                        !.call = Call(getInnerText(nodes), getCaretPosition(nodes, sel), FALSE),
                        !.cbs = <<"onChange">>]
        /\ UNCHANGED <<env, cached, keys, nodes, sel, focused, editedNode, isComposingIME, subscribed,
                       keyupsOpen, reqs, timeouts, evCount>>

\* the macrotask of doAsyncMacrotask runs: config.onChange(queryText, caretPosition)
MacrotaskRun ==
    \E t \in tasks :
        /\ t.stage = "macrotask"
        /\ callSeq < MaxCalls
        /\ tasks' = (tasks \ {t}) \cup {[t EXCEPT !.stage = "inflight", !.seq = callSeq + 1]}
        /\ callSeq' = callSeq + 1
        /\ hist' = [hist EXCEPT !.called = Append(@, t.ev)]
        /\ last' = [Step("macrotask") EXCEPT
                        !.ev = t.ev, !.seq = callSeq + 1,
                        !.call = Call(t.text, t.caret, FALSE), !.cbs = <<"onChange">>]
        /\ UNCHANGED <<env, cached, keys, nodes, sel, focused, editedNode, isComposingIME, subscribed,
                       keyupsOpen, reqs, timeouts, evCount>>

\* a subscriber that drops the tokens while a composition is active
OnTokensNotComposing(D, hasFocus, tokens) ==
    LET Marked(td, caretNode) ==
            IF td.threw
            THEN [doc |-> td.doc, mutated |-> td.mutated, saved |-> td.saved,
                  threw |-> TRUE, cbs |-> <<>>]
            ELSE [doc |-> setEditedNode(td.doc, caretNode, FALSE),
                  mutated |-> td.mutated, saved |-> td.saved, threw |-> FALSE,
                  cbs |-> IF isCaretOnSeparator(td.doc.nodes, caretNode)
                          THEN <<"onCaretPositionChanged">> ELSE <<>>]
        Rendered(td) == Marked(td, getCaretNode(td.doc.nodes, td.doc.sel))
    IN  IF isComposingIME
        THEN [doc |-> D, mutated |-> FALSE, saved |-> FALSE, threw |-> FALSE, cbs |-> <<>>]
        ELSE Rendered(tokenizeDisplay(D, hasFocus, tokens, FALSE))

\* the subscriber of setupOnChange, given the tokens of a cycle
OnTokens(D, hasFocus, tokens) ==
    LET Marked(td, caretNode) ==
            IF td.threw
            THEN [doc |-> td.doc, mutated |-> td.mutated, saved |-> td.saved,
                  threw |-> TRUE, cbs |-> <<>>]
            ELSE [doc |-> setEditedNode(td.doc, caretNode, FALSE),
                  mutated |-> td.mutated, saved |-> td.saved, threw |-> FALSE,
                  cbs |-> IF isCaretOnSeparator(td.doc.nodes, caretNode)
                          THEN <<"onCaretPositionChanged">> ELSE <<>>]
        Rendered(td) == Marked(td, getCaretNode(td.doc.nodes, td.doc.sel))
    IN  Rendered(tokenizeDisplay(D, hasFocus, tokens, FALSE))

\* config.onChange of a cycle resolves.  A live cycle hands the tokens to the
\* subscriber (an exception thrown there closes the subscription); a cycle that
\* was unsubscribed drops them
PipelineResolveOf(Tokens) ==
    \E t \in tasks, tokens \in Tokens :
        /\ t.stage = "inflight"
        /\ IF t.live
           THEN \E r \in {OnTokens(D0, focused, tokens)} :
                    /\ SetDoc(r.doc)
                    /\ timeouts' = DetachTargets(timeouts, r.mutated)
                    /\ innerText' = IF r.mutated THEN getInnerText(r.doc.nodes) ELSE innerText
                    /\ keyupsOpen' = ~r.threw
                    /\ tasks' = IF r.threw THEN Unsubscribe(tasks \ {t}) ELSE tasks \ {t}
                    /\ last' = [Step("changeResolve") EXCEPT
                                    !.ev = t.ev, !.seq = t.seq, !.mutated = r.mutated,
                                    !.render = TRUE, !.tokens = tokens, !.cbs = r.cbs,
                                    !.report =
                                        IF r.cbs = <<>> THEN NoCall
                                        ELSE onCaretPositionChanged(
                                                 r.doc,
                                                 IF r.mutated THEN getInnerText(r.doc.nodes)
                                                 ELSE innerText)]
           ELSE /\ UNCHANGED <<innerText, nodes, sel, editedNode, timeouts, keyupsOpen>>
                /\ tasks' = tasks \ {t}
                /\ last' = [Step("changeResolve") EXCEPT !.ev = t.ev, !.seq = t.seq]
        /\ UNCHANGED <<env, hasWrapped, keys, focused, isComposingIME, subscribed, reqs,
                       evCount, callSeq, hist>>

\* config.onChange of a cycle rejects.  In a live cycle the error reaches the
\* subscriber, which has no error handler: the subscription is closed
PipelineReject ==
    \E t \in tasks :
        /\ t.stage = "inflight"
        /\ tasks' = IF t.live THEN Unsubscribe(tasks \ {t}) ELSE tasks \ {t}
        /\ keyupsOpen' = IF t.live THEN FALSE ELSE keyupsOpen
        /\ hist' = [hist EXCEPT !.rejected = @ \cup {t.ev}]
        /\ last' = [Step("changeReject") EXCEPT !.ev = t.ev, !.seq = t.seq]
        /\ UNCHANGED <<env, cached, keys, nodes, sel, focused, editedNode, isComposingIME, subscribed,
                       reqs, timeouts, evCount, callSeq>>

\* Tokenizer.destroy(): every subscription is unsubscribed
Destroy ==
    /\ subscribed
    /\ subscribed' = FALSE
    /\ keyupsOpen' = FALSE
    /\ tasks' = Unsubscribe(tasks)
    /\ hist' = [hist EXCEPT !.cancelled = @ \cup CancelledTimers(tasks),
                             !.destroyedAt = callSeq]
    /\ keys' = [keys EXCEPT !.open = FALSE, !.nav = "none"]
    /\ timeouts' = {t \in timeouts : t.kind # "resize"}
    /\ last' = Step("destroy")
    /\ UNCHANGED <<env, cached, nodes, sel, focused, editedNode, isComposingIME, reqs,
                   evCount, callSeq>>

-----------------------------------------------------------------------------
(* Timeouts, pointer events and IME composition. *)

\* onEmptyInputClicked leaving the selection as it found it
onEmptyInputClickedInPlace(D) ==
    setEditedNode(D, getCaretNode(D.nodes, D.sel), TRUE)

\* Tokenizer.onEmptyInputClicked: the document afterwards; it reports
\* onCaretPositionChanged and onFocusChanged(true)
onEmptyInputClicked(D) ==
    LET Mark(s) == setEditedNode(Doc(D.nodes, s, D.editedNode), getCaretNode(D.nodes, s), TRUE)
    IN  Mark(moveCursorToEndOfToken(D.nodes, Len(D.nodes)))

\* Tokenizer.setEditedNodeWithCaretChange(node): it reports onCaretPositionChanged
setEditedNodeWithCaretChange(D, node) == setEditedNode(D, node, FALSE)

\* Tokenizer.findContentNodeAtIndex(idx): getContentNodes()[idx], NullRef for
\* undefined
findContentNodeAtIndex(ns, idx) ==
    IF idx >= 0 /\ idx < Len(getContentNodes(ns))
    THEN Ref("child", getContentNodes(ns)[idx + 1])
    ELSE NullRef

\* getTextChild(node): the text node inside the element; it reads nodeName of
\* undefined, or of the null firstChild of an element without text (throw)
getTextChild(ns, node) ==
    IF node.k # "child" \/ ns[node.i].text = <<>> THEN "throw" ELSE "text"

\* setCaretAtNodeOffset(node, offset): the caret goes into the text of the node;
\* an offset past the text makes the range raise
setCaretAtNodeOffset(ns, node, offset) ==
    IF getTextChild(ns, node) = "throw" \/ offset > Len(ns[node.i].text)
    THEN [threw |-> TRUE, sel |-> NoSelection]
    ELSE [threw |-> FALSE, sel |-> Caret(Pos(node.i, TRUE, offset))]

\* Tokenizer.getTokenPosition(idx): null without a content node, else the
\* coordinates of the node
GetTokenPositionOf(Indices) ==
    \E idx \in Indices :
        /\ last' = [Step("getTokenPosition") EXCEPT
                        !.idx = idx,
                        !.result = IF findContentNodeAtIndex(nodes, idx) = NullRef
                                   THEN "null" ELSE "position"]
        /\ UNCHANGED <<env, cached, nodes, sel, focused, editedNode, isComposingIME, subscribed,
                       keyupsOpen, tasks, reqs, timeouts, keys, evCount, callSeq, hist>>

\* Tokenizer.selectNodeByIdx(idx, offset): an exception of setCaretAtNodeOffset
\* leaves the method before anything was changed
SelectNodeByIdxOf(Indices, Offsets) ==
    \E idx \in Indices, offset \in Offsets :
    \E target \in {findContentNodeAtIndex(nodes, idx)} :
    \E c \in {setCaretAtNodeOffset(nodes, target, offset)} :
        /\ IF c.threw
           THEN /\ last' = [Step("selectNodeByIdx") EXCEPT
                                !.idx = idx, !.offset = offset, !.result = "raised"]
                /\ UNCHANGED <<nodes, sel, editedNode>>
           ELSE \E D1 \in {setEditedNodeWithCaretChange(Doc(nodes, c.sel, editedNode), target)} :
                /\ SetDoc(D1)
                /\ last' = [Step("selectNodeByIdx") EXCEPT
                                !.idx = idx, !.offset = offset, !.result = "done",
                                !.report = onCaretPositionChanged(D1, innerText),
                                !.cbs = <<"onCaretPositionChanged", "onFocusChanged">>]
        /\ UNCHANGED <<env, cached, focused, isComposingIME, subscribed, keyupsOpen, tasks, reqs,
                       timeouts, keys, evCount, callSeq, hist>>

\* a callback passed to setTimeout runs; destroy() does not clear it
TimeoutRun ==
    \E t \in timeouts :
        /\ t.kind \in {"focus", "click"}
        /\ timeouts' = timeouts \ {t}
        /\ IF t.kind = "focus"
           THEN /\ SetDoc(onEmptyInputClicked(D0))
                /\ focused' = TRUE
                /\ last' = [Step("timeoutFocus") EXCEPT
                                !.report = onCaretPositionChanged(onEmptyInputClicked(D0),
                                                                  innerText),
                                !.cbs = <<"onCaretPositionChanged", "onFocusChanged">>]
           ELSE /\ SetDoc(setEditedNodeWithCaretChange(D0, t.target))
                /\ focused' = focused
                /\ last' = [Step("timeoutClick") EXCEPT
                                !.report = onCaretPositionChanged(
                                               setEditedNodeWithCaretChange(D0, t.target),
                                               innerText),
                                !.cbs = <<"onCaretPositionChanged", "onFocusChanged">>]
        /\ UNCHANGED <<env, cached, keys, isComposingIME, subscribed, keyupsOpen, tasks, reqs,
                       evCount, callSeq, hist>>

\* mousedown on the empty part of the container (setupMousedown, target === el);
\* the browser then focuses the container
MouseDownContainer ==
    /\ SetDoc(IF subscribed THEN onEmptyInputClicked(D0)
              ELSE [D0 EXCEPT !.sel = moveCursorToEndOfToken(nodes, Len(nodes))])
    /\ focused' = TRUE
    /\ last' = [Step("mousedownContainer") EXCEPT
                    !.report = IF subscribed
                               THEN onCaretPositionChanged(onEmptyInputClicked(D0), innerText)
                               ELSE NoCall,
                    !.cbs = IF subscribed THEN <<"onCaretPositionChanged", "onFocusChanged">>
                            ELSE <<>>]
    /\ UNCHANGED <<env, cached, keys, isComposingIME, subscribed, keyupsOpen, tasks, reqs, timeouts,
                   evCount, callSeq, hist>>

\* the caret positions a click or an arrow key can reach inside child node i
ClickPositions(ns, i) ==
    IF ns[i].text = <<>> THEN {Pos(i, FALSE, 0)}
    ELSE {Pos(i, IsElement(ns[i]), o) : o \in 0..Len(ns[i].text)}

\* mousedown on an element child outside its remove button: the handler defers
\* the edited marking to a timeout; the browser focuses and places the caret
MouseDownToken ==
    \E i \in 1..Len(nodes) : \E p \in ClickPositions(nodes, i) :
        /\ IsElement(nodes[i])
        /\ \A t \in timeouts : t.kind # "click"
        /\ timeouts' = IF subscribed THEN timeouts \cup {Timeout("click", Ref("child", i))}
                       ELSE timeouts
        /\ sel' = Caret(p)
        /\ focused' = TRUE
        /\ last' = Step("mousedownToken")
        /\ UNCHANGED <<env, cached, keys, nodes, editedNode, isComposingIME, subscribed, keyupsOpen,
                       tasks, reqs, evCount, callSeq, hist>>

\* a boundary point after child node k was removed
PosAfterRemove(p, k) ==
    IF p.n = k THEN Pos(0, FALSE, k - 1)
    ELSE IF p.n > k THEN [p EXCEPT !.n = p.n - 1]
    ELSE IF p.n = 0 /\ p.o >= k THEN [p EXCEPT !.o = p.o - 1]
    ELSE p

RefAfterRemove(r, k) ==
    IF r.k = "child" /\ r.i = k THEN Ref("detached", 0)
    ELSE IF r.k = "child" /\ r.i > k THEN Ref("child", r.i - 1)
    ELSE r

\* a remove() that leaves child node k where it is
RemoveNodeLeftInPlace(D, k) == D

\* node.remove() for child node k
RemoveNode(D, k) ==
    Doc(DropAt(D.nodes, k),
        IF D.sel.kind = "in"
        THEN Range(PosAfterRemove(D.sel.a, k), PosAfterRemove(D.sel.f, k)) ELSE D.sel,
        RefAfterRemove(D.editedNode, k))

\* mousedown within the remove button of token i: the token is marked removed, a
\* separator that follows it is removed and a transitionend listener is added
MouseDownRemove ==
    \E i \in 1..Len(nodes) :
        /\ subscribed
        /\ HasClass(nodes[i], classes.TOKEN)
        /\ ~HasClass(nodes[i], classes.REMOVED)
        /\ \E marked \in {[D0 EXCEPT !.nodes[i] = AddClass(@, classes.REMOVED)]} :
           \E hasSeparator \in {/\ i < Len(nodes)
                                /\ IsElement(nodes[i + 1])
                                /\ nodes[i + 1].cls = <<classes.SEPARATOR>>} :
               /\ SetDoc(IF hasSeparator THEN RemoveNode(marked, i + 1) ELSE marked)
               /\ timeouts' = IF hasSeparator
                              THEN {[t EXCEPT !.target = RefAfterRemove(@, i + 1)] : t \in timeouts}
                              ELSE timeouts
               /\ last' = [Step("mousedownRemove") EXCEPT
                                !.mutated = hasSeparator, !.prevented = TRUE]
        /\ UNCHANGED <<env, cached, keys, focused, isComposingIME, subscribed, keyupsOpen, tasks, reqs,
                       evCount, callSeq, hist>>

\* the max-width transition of a removed token ends: the listener added by the
\* mousedown handler removes the token, re-tokenizes the text that is left and
\* checks the wrap state
TransitionEnd ==
    \E i \in 1..Len(nodes) :
        /\ HasClass(nodes[i], classes.REMOVED)
        /\ callSeq < MaxCalls
        /\ \E D1 \in {RemoveNode(D0, i)} :
           \E w \in {setHasWrapped(D1.nodes, narrow, TRUE, hasWrapped)} :
               /\ SetDoc(D1)
               /\ innerText' = getInnerText(D1.nodes)
               /\ hasWrapped' = w.hasWrapped
               /\ last' = [Step("transitionend") EXCEPT
                                !.mutated = TRUE, !.seq = callSeq + 1,
                                !.call = RefreshCall(D1, getInnerText(D1.nodes)),
                                !.cbs = <<"onChange">> \o w.cbs]
        /\ timeouts' = {[t EXCEPT !.target = RefAfterRemove(@, i)] : t \in timeouts}
        /\ callSeq' = callSeq + 1
        /\ reqs' = reqs \cup {Req(callSeq + 1, "remove", getInnerText(RemoveNode(D0, i).nodes))}
        /\ UNCHANGED <<env, keys, focused, isComposingIME, subscribed, keyupsOpen, tasks,
                       evCount, hist>>

\* the user moves the caret inside the focused container (arrow keys)
MoveCaret ==
    \E i \in 1..Len(nodes) : \E p \in ClickPositions(nodes, i) :
        /\ focused
        /\ sel # Caret(p)
        /\ sel' = Caret(p)
        /\ last' = Step("moveCaret")
        /\ UNCHANGED <<env, cached, keys, nodes, focused, editedNode, isComposingIME, subscribed,
                       keyupsOpen, tasks, reqs, timeouts, evCount, callSeq, hist>>

\* the user selects from the start of the first child node to the last child
\* node, or from the last child node back to the start of the first, or the
\* text of the first child node
SelectRange ==
    /\ focused
    /\ Len(nodes) >= 2
    /\ \E first \in {[DeepNode(nodes, 1) EXCEPT !.o = 0]} :
       \E final \in {[DeepNode(nodes, Len(nodes)) EXCEPT !.o = 0]} :
           sel' \in {Range(first, final), Range(final, first),
                     Range(first, [first EXCEPT !.o = Len(nodes[1].text)])}
    /\ sel' # sel
    /\ last' = Step("selectRange")
    /\ UNCHANGED <<env, cached, keys, nodes, focused, editedNode, isComposingIME, subscribed,
                   keyupsOpen, tasks, reqs, timeouts, evCount, callSeq, hist>>

\* the user leaves the container: it loses the focus and the selection moves away
UserBlur ==
    /\ focused
    /\ \E b \in {Blur(D0, focused, subscribed)} :
           /\ SetDoc([b.doc EXCEPT !.sel = OutsideSelection])
           /\ hasWrapped' = b.hasWrapped
           /\ last' = [Step("blur") EXCEPT !.cbs = b.cbs]
    /\ focused' = FALSE
    /\ UNCHANGED <<env, innerText, keys, isComposingIME, subscribed, keyupsOpen, tasks, reqs, timeouts,
                   evCount, callSeq, hist>>

\* a blur() that leaves the edited node as it is
BlurCallLeavesEdited ==
    \E b \in {Blur(D0, focused, subscribed)} :
        /\ SetDoc(IF focused THEN [b.doc EXCEPT !.sel = OutsideSelection] ELSE b.doc)
        /\ hasWrapped' = b.hasWrapped
        /\ focused' = FALSE
        /\ last' = [Step("blurCall") EXCEPT !.cbs = b.cbs]
        /\ UNCHANGED <<env, innerText, keys, isComposingIME, subscribed, keyupsOpen, tasks, reqs,
                       timeouts, evCount, callSeq, hist>>

\* Tokenizer.blur(): el.blur() dispatches the blur event when the container has
\* the focus, then the edited node is cleared
BlurCall ==
    \E b \in {Blur(D0, focused, subscribed)} :
        /\ SetDoc(setEditedNode(IF focused THEN [b.doc EXCEPT !.sel = OutsideSelection]
                                ELSE b.doc,
                                NullRef, FALSE))
        /\ hasWrapped' = b.hasWrapped
        /\ focused' = FALSE
        /\ last' = [Step("blurCall") EXCEPT !.cbs = b.cbs]
        /\ UNCHANGED <<env, innerText, keys, isComposingIME, subscribed, keyupsOpen, tasks, reqs,
                       timeouts, evCount, callSeq, hist>>

\* compositionstart reaches the listener of setupIMEComposition
CompositionStart ==
    /\ subscribed
    /\ focused
    /\ ~isComposingIME
    /\ isComposingIME' = TRUE
    /\ last' = Step("compositionstart")
    /\ UNCHANGED <<env, cached, keys, nodes, sel, focused, editedNode, subscribed, keyupsOpen, tasks,
                   reqs, timeouts, evCount, callSeq, hist>>

\* compositionend: the flag is cleared and the text is re-tokenized at once
CompositionEnd ==
    /\ subscribed
    /\ isComposingIME
    /\ callSeq < MaxCalls
    /\ isComposingIME' = FALSE
    /\ callSeq' = callSeq + 1
    /\ reqs' = reqs \cup {Req(callSeq + 1, "compositionend", getInnerText(nodes))}
    /\ innerText' = getInnerText(nodes)
    /\ last' = [Step("compositionend") EXCEPT
                    !.seq = callSeq + 1, !.call = RefreshCall(D0, getInnerText(nodes)),
                    !.cbs = <<"onChange">>]
    /\ UNCHANGED <<env, hasWrapped, keys, nodes, sel, focused, editedNode, subscribed,
                   keyupsOpen, tasks, timeouts, evCount, hist>>

\* the window is resized and the room of the container is what it was or
\* changes; the resize subscription (setupResizingWrapCheck) starts the wait of
\* debounceTime(60) again
Resize ==
    /\ narrow' \in BOOLEAN
    /\ timeouts' = IF subscribed THEN timeouts \cup {Timeout("resize", NullRef)} ELSE timeouts
    /\ last' = Step("resize")
    /\ UNCHANGED <<config, detected, browserName, cached, keys, nodes, sel, focused, editedNode, isComposingIME,
                   subscribed, keyupsOpen, tasks, reqs, evCount, callSeq, hist>>

\* debounceTime(60) emits the resize: the wrap state is checked
ResizeExpire ==
    /\ Timeout("resize", NullRef) \in timeouts
    /\ timeouts' = timeouts \ {Timeout("resize", NullRef)}
    /\ \E w \in {setHasWrapped(nodes, narrow, TRUE, hasWrapped)} :
           /\ hasWrapped' = w.hasWrapped
           /\ last' = [Step("resizeExpire") EXCEPT !.cbs = w.cbs]
    /\ UNCHANGED <<env, innerText, keys, nodes, sel, focused, editedNode, isComposingIME,
                   subscribed, keyupsOpen, tasks, reqs, evCount, callSeq, hist>>

\* the text that the paste handler inserts for the clipboard text clip: the
\* line breaks become spaces and the ends are trimmed
pastedQuery(clip) == Trim([j \in 1..Len(clip) |-> IF clip[j] = NL THEN SP ELSE clip[j]])

\* document.execCommand('insertText', false, text) at the caret
RECURSIVE insertText(_, _)
insertText(D, text) ==
    IF text = <<>> THEN D ELSE insertText(TypeChar(D, Head(text)), Tail(text))

\* a paste handler that does nothing while a composition is active
PasteSuppressedOf(Clipboards) ==
    \E clip \in Clipboards :
        /\ subscribed
        /\ evCount < MaxEvents
        /\ focused
        /\ sel.kind = "in" /\ sel.a = sel.f
        /\ pastedQuery(clip) # <<>>
        /\ \E D1 \in {IF isComposingIME THEN D0 ELSE insertText(D0, pastedQuery(clip))} :
           \E qualifies \in {keyupsOpen /\ NotComposing(isComposingIME)} :
               /\ SetDoc(D1)
               /\ timeouts' = IF TypingInsertsNode(D0) /\ ~isComposingIME
                              THEN {[t EXCEPT !.target = ShiftRefUp(@, sel.a.o)] : t \in timeouts}
                              ELSE timeouts
               /\ tasks' = IF qualifies
                           THEN Unsubscribe(tasks)
                                \cup {Task(evCount + 1, "timer", getInnerText(D1.nodes),
                                           getCaretPosition(D1.nodes, D1.sel), TRUE, 0)}
                           ELSE tasks
               /\ hist' = IF qualifies
                          THEN [hist EXCEPT !.cancelled = @ \cup CancelledTimers(tasks),
                                            !.qualified = @ \cup {evCount + 1}]
                          ELSE hist
               /\ last' = [Step("paste") EXCEPT !.ev = evCount + 1, !.mutated = ~isComposingIME,
                                                !.prevented = ~isComposingIME]
        /\ evCount' = evCount + 1
        /\ UNCHANGED <<env, cached, keys, focused, isComposingIME, subscribed, keyupsOpen, reqs, callSeq>>

\* paste into the focused container (setupPaste): the default is prevented and
\* the plain text of the clipboard is inserted at the caret; the insertion
\* dispatches the change event, which passes the filter of setupOnChange or
\* does not
PasteOf(Clipboards) ==
    \E clip \in Clipboards :
        /\ subscribed
        /\ evCount < MaxEvents
        /\ focused
        /\ sel.kind = "in" /\ sel.a = sel.f
        /\ pastedQuery(clip) # <<>>
        /\ \E D1 \in {insertText(D0, pastedQuery(clip))} :
           \E qualifies \in {keyupsOpen /\ NotComposing(isComposingIME)} :
               /\ SetDoc(D1)
               /\ timeouts' = IF TypingInsertsNode(D0)
                              THEN {[t EXCEPT !.target = ShiftRefUp(@, sel.a.o)] : t \in timeouts}
                              ELSE timeouts
               /\ tasks' = IF qualifies
                           THEN Unsubscribe(tasks)
                                \cup {Task(evCount + 1, "timer", getInnerText(D1.nodes),
                                           getCaretPosition(D1.nodes, D1.sel), TRUE, 0)}
                           ELSE tasks
               /\ hist' = IF qualifies
                          THEN [hist EXCEPT !.cancelled = @ \cup CancelledTimers(tasks),
                                            !.qualified = @ \cup {evCount + 1}]
                          ELSE hist
               /\ last' = [Step("paste") EXCEPT !.ev = evCount + 1, !.mutated = TRUE,
                                                !.prevented = TRUE]
        /\ evCount' = evCount + 1
        /\ UNCHANGED <<env, cached, keys, focused, isComposingIME, subscribed, keyupsOpen, reqs, callSeq>>

\* mouseover on element child i (setupHover): the subscription exists when
\* config.onMouseOverToken is a function, and passes the targets that carry a
\* token index
MouseOver ==
    \E i \in 1..Len(nodes) :
        /\ IsElement(nodes[i])
        /\ last' = [Step("mouseover") EXCEPT
                        !.idx = nodes[i].idx,
                        !.cbs = IF /\ subscribed
                                   /\ "onMouseOverToken" \in config
                                   /\ nodes[i].idx >= 0
                                THEN <<"onMouseOverToken">> ELSE <<>>]
        /\ UNCHANGED <<env, cached, keys, nodes, sel, focused, editedNode, isComposingIME,
                       subscribed, keyupsOpen, tasks, reqs, timeouts, evCount, callSeq, hist>>

\* mouseout of the container or of a node in it (setupHover): the subscription
\* exists when config.onMouseOutTokenizer is a function
MouseOut ==
    /\ last' = [Step("mouseout") EXCEPT
                    !.cbs = IF subscribed /\ "onMouseOutTokenizer" \in config
                            THEN <<"onMouseOutTokenizer">> ELSE <<>>]
    /\ UNCHANGED <<env, cached, keys, nodes, sel, focused, editedNode, isComposingIME,
                   subscribed, keyupsOpen, tasks, reqs, timeouts, evCount, callSeq, hist>>

-----------------------------------------------------------------------------
(* The keydown chain of setupKeydown. *)

navigational == {"ArrowUp", "ArrowDown", "ArrowLeft", "ArrowRight"}

\* the keys with special handling, without Enter and Escape
keysWithoutEnterAndEscape == {" ", "Backspace", "Delete"} \cup navigational

keysWithSpecialHandling == {" ", "Backspace", "Delete", "Enter", "Escape"} \cup navigational

\* the keys the user presses: the keys with special handling that differ in
\* their handling, and a key without
Keys == {" ", "Backspace", "Delete", "Enter", "Escape", "ArrowLeft", "x"}

isRemoveType(key) == key \in {"Delete", "Backspace"}

\* the body of handleKeyPressesOnSeparator: the document afterwards, whether
\* preventDefault was called and the callbacks reported
KeyPressOnSeparator(D, key) ==
    LET Into(s) ==
            [doc |-> setEditedNodeWithCaretChange(Doc(D.nodes, s, D.editedNode),
                                                  getCaretNode(D.nodes, s)),
             prevented |-> TRUE, cbs |-> <<"onCaretPositionChanged">>,
             report |-> onCaretPositionChanged(Doc(D.nodes, s, D.editedNode), innerText)]
    IN  IF /\ isCaretOnEmptySeparator(D.nodes, getCaretNode(D.nodes, D.sel))
           /\ ~isRangeSelection(D.nodes, D.sel)
           /\ isRemoveType(key)
        THEN IF key = "Backspace"
             THEN Into(moveCursorIntoTokenEnd(D.nodes, D.sel))
             ELSE [doc |-> D, prevented |-> TRUE, cbs |-> <<>>, report |-> NoCall]
        ELSE [doc |-> D, prevented |-> FALSE, cbs |-> <<>>, report |-> NoCall]

\* handleSpacesAtTokenEndings; threw when there is no caret token
SpaceAtTokenEnding(D, key) ==
    LET Out(s) ==
            [doc |-> setEditedNodeWithCaretChange(Doc(D.nodes, s, D.editedNode),
                                                  getCaretNode(D.nodes, s)),
             prevented |-> TRUE, cbs |-> <<"onCaretPositionChanged">>, threw |-> FALSE,
             report |-> onCaretPositionChanged(Doc(D.nodes, s, D.editedNode), innerText)]
        Hop(atEnd) ==
            IF atEnd = "true" THEN Out(moveCursorOutFromTokenEnd(D.nodes, D.sel))
            ELSE [doc |-> D, prevented |-> FALSE, cbs |-> <<>>, threw |-> atEnd = "throw",
                  report |-> NoCall]
    IN  Hop(IF key = " " THEN isCaretAtTheEndOfCompleteToken(D.nodes, D.sel, FALSE)
            ELSE "false")

\* the event a debounce holds, by what its reader tells apart: the deferred
\* handleKeyPressesOnSeparator reads isRemoveType(e) and isBackspace(e), the
\* subscriber of debounceTime reads isNavigational(e)
PendingKey(key) == IF isRemoveType(key) THEN key ELSE "x"

EmittedKey(key) == IF key \in navigational THEN "ArrowLeft" ELSE "x"

\* a filter that lets every keydown pass
VetoIgnored(answer) == TRUE

\* .filter(e => this.config.onKeyDown(e)) of the keydown chain
Proceeds(answer) == answer

\* a keydown event, with the answer config.onKeyDown gives for it.  The handler
\* handleKeyPressesOnSeparator is debounced (lodash, 100 ms, leading and
\* trailing): it runs at once when no wait is pending, else it is deferred to
\* the end of the wait.  The chain ends in debounceTime(200)
KeyDownOf(Pressed) ==
    \E key \in Pressed, proceed \in BOOLEAN :
    \E listening \in {subscribed /\ keys.open /\ NotComposing(isComposingIME)} :
    \E handled \in {listening /\ Proceeds(proceed) /\ key \in keysWithSpecialHandling} :
    \E blurs \in {handled /\ key \in {"Enter", "Escape"}} :
    \E leading \in {handled /\ keys.debounce = "idle"} :
    \E b \in {IF blurs THEN Blur(D0, focused, subscribed)
              ELSE [doc |-> D0, cbs |-> <<>>, hasWrapped |-> hasWrapped]} :
    \E k \in {IF leading THEN KeyPressOnSeparator(b.doc, key)
              ELSE [doc |-> b.doc, prevented |-> FALSE, cbs |-> <<>>, report |-> NoCall]} :
    \E sp \in {IF handled THEN SpaceAtTokenEnding(k.doc, key)
               ELSE [doc |-> k.doc, prevented |-> FALSE, cbs |-> <<>>, threw |-> FALSE,
                     report |-> NoCall]} :
        /\ SetDoc(sp.doc)
        /\ hasWrapped' = b.hasWrapped
        /\ focused' = IF blurs THEN FALSE ELSE focused
        /\ keys' = IF ~handled THEN keys
                   ELSE [open |-> ~sp.threw,
                         debounce |-> IF leading THEN "wait" ELSE "trailing",
                         trailing |-> IF leading THEN "none" ELSE PendingKey(key),
                         nav |-> IF sp.threw THEN "none" ELSE EmittedKey(key)]
        /\ last' = [Step("keydown") EXCEPT
                        !.key = key, !.proceed = proceed,
                        !.cbs = (IF listening THEN <<"onKeyDown">> ELSE <<>>)
                                \o b.cbs \o k.cbs \o sp.cbs,
                        !.report = IF sp.report.issued THEN sp.report ELSE k.report,
                        !.prevented = blurs \/ k.prevented \/ sp.prevented]
        /\ UNCHANGED <<env, innerText, isComposingIME, subscribed, keyupsOpen, tasks, reqs,
                       timeouts, evCount, callSeq, hist>>

\* the wait of the debounced handleKeyPressesOnSeparator ends: a deferred call
\* runs now, with the event it was given; destroy() does not cancel it
KeyDebounceExpire ==
    /\ keys.debounce # "idle"
    /\ \E k \in {IF keys.debounce = "trailing" THEN KeyPressOnSeparator(D0, keys.trailing)
                 ELSE [doc |-> D0, prevented |-> FALSE, cbs |-> <<>>, report |-> NoCall]} :
           /\ SetDoc(k.doc)
           /\ last' = [Step("keyDebounce") EXCEPT !.cbs = k.cbs, !.report = k.report]
    /\ keys' = [keys EXCEPT !.debounce = "idle", !.trailing = "none"]
    /\ UNCHANGED <<env, cached, focused, isComposingIME, subscribed, keyupsOpen, tasks, reqs, timeouts,
                   evCount, callSeq, hist>>

\* debounceTime(200) emits the last keydown: a navigational key updates the
\* edited node
KeyNavExpire ==
    /\ keys.nav # "none"
    /\ LET isNav == keys.nav = "ArrowLeft"
       IN  /\ SetDoc(IF isNav
                     THEN setEditedNodeWithCaretChange(D0, getCaretNode(nodes, sel))
                     ELSE D0)
           /\ last' = [Step("keyNav") EXCEPT
                            !.report = IF isNav THEN onCaretPositionChanged(D0, innerText)
                                       ELSE NoCall,
                            !.cbs = IF isNav THEN <<"onCaretPositionChanged">> ELSE <<>>]
    /\ keys' = [keys EXCEPT !.nav = "none"]
    /\ UNCHANGED <<env, cached, focused, isComposingIME, subscribed, keyupsOpen, tasks, reqs, timeouts,
                   evCount, callSeq, hist>>

-----------------------------------------------------------------------------
(* The operations with every input of the model. *)

Init == InitWith(TokenSeqs, BOOLEAN, {TestConfig, {"onChange"}}, BOOLEAN)

UpdateText == UpdateTextOf(Texts)

\* tokenIdx -1 stands for an index that is omitted
UpdateDisplay == UpdateDisplayOf(TokenSeqs, {-1, 0, 1}, BOOLEAN)

RefreshResolve == RefreshResolveOf(TokenSeqs)

PipelineResolve == PipelineResolveOf(TokenSeqs)

KeyDown == KeyDownOf(Keys)

-----------------------------------------------------------------------------
(* The widget with every operation and every input. *)

Next ==
    \/ UpdateText
    \/ UpdateDisplay
    \/ Clear
    \/ RefreshResolve
    \/ RefreshReject
    \/ InputEvent
    \/ TimerFire
    \/ MacrotaskRun
    \/ PipelineResolve
    \/ PipelineReject
    \/ Destroy
    \/ TimeoutRun
    \/ MouseDownContainer
    \/ MouseDownToken
    \/ MouseDownRemove
    \/ TransitionEnd
    \/ MoveCaret
    \/ SelectRange
    \/ UserBlur
    \/ CompositionStart
    \/ CompositionEnd
    \/ KeyDown
    \/ KeyDebounceExpire
    \/ KeyNavExpire
    \/ Resize
    \/ ResizeExpire
    \/ MouseOver
    \/ MouseOut

Spec == Init /\ [][Next]_vars

-----------------------------------------------------------------------------
(* The change-event pipeline next to focus changes, the start of an IME     *)
(* composition and destroy, for a widget constructed with two complete      *)
(* tokens and isFocused.                                                    *)

ChangeTokens == {<<>>, TwoComplete}

InitChange == InitOf({TwoComplete}, {TRUE})

NextChange ==
    \/ TimeoutRun
    \/ InputEvent
    \/ TimerFire
    \/ MacrotaskRun
    \/ PipelineResolveOf(ChangeTokens)
    \/ PipelineReject
    \/ CompositionStart
    \/ UserBlur
    \/ MouseDownContainer
    \/ Destroy

SpecChange == InitChange /\ [][NextChange]_vars

\* C1: in the change-event pipeline, the response for a change event that
\* arrives after a later qualifying change event is discarded: the step that
\* receives it renders nothing and leaves the child nodes, the selection and the
\* edited node as they are
C1_StaleResponseDiscarded ==
    [][(last'.op = "changeResolve" /\ \E e \in hist.qualified : e > last'.ev)
        => /\ ~last'.render
           /\ ~last'.mutated
           /\ nodes' = nodes
           /\ sel' = sel
           /\ editedNode' = editedNode]_vars

\* the response for the first change event has arrived after a second
\* qualifying change event
C1_StaleResponseArrived ==
    /\ last.op = "changeResolve"
    /\ \E e \in hist.qualified : e > last.ev

\* C3: after a config.onChange call of the pipeline rejected, a later change
\* event, dispatched while the widget is neither destroyed nor composing, still
\* starts a debounce timer
C3_RejectionReturnsToIdle ==
    [][(/\ last'.op = "input"
        /\ hist.rejected # {}
        /\ subscribed
        /\ ~isComposingIME)
        => \E t \in tasks' : t.ev = last'.ev /\ t.stage = "timer"]_vars

\* C4: a change event that is followed by another qualifying change event
\* while its debounce timer is pending issues no config.onChange call and keeps
\* no cycle; no change event issues two calls; and a qualifying change event
\* restarts the timer: the one pending timer is that of the latest qualifying
\* change event
C4_OneCallForLaterEvent ==
    /\ \A e \in hist.cancelled :
        /\ \A i \in 1..Len(hist.called) : hist.called[i] # e
        /\ \A t \in tasks : t.ev # e
    /\ \A i, j \in 1..Len(hist.called) : i # j => hist.called[i] # hist.called[j]
    /\ \A t \in tasks : t.stage = "timer" => \A e \in hist.qualified : e <= t.ev
    /\ Cardinality({t \in tasks : t.stage = "timer"}) <= 1
    /\ (last.op = "input" /\ last.ev \in hist.qualified)
        => \E t \in tasks : t.stage = "timer" /\ t.ev = last.ev

\* two qualifying change events came before the first timer fired, and the one
\* call that was issued is that of the second
C4_SecondEventCalled ==
    /\ hist.qualified = {1, 2}
    /\ hist.cancelled = {1}
    /\ hist.called = <<2>>

-----------------------------------------------------------------------------
(* IME composition next to the change events, up to the config.onChange     *)
(* call they lead to, and next to the keydown chain, for a widget           *)
(* constructed with two complete tokens and isFocused.                      *)

\* the keys pressed around a composition: one for each handler of the chain
IMEKeys == {"Backspace", "Enter", "ArrowLeft"}

NextIME ==
    \/ TimeoutRun
    \/ CompositionStart
    \/ CompositionEnd
    \/ InputEvent
    \/ TimerFire
    \/ MacrotaskRun
    \/ KeyDownOf(IMEKeys)
    \/ KeyDebounceExpire
    \/ KeyNavExpire

SpecIME == InitChange /\ [][NextIME]_vars

\* C7: while isComposingIME is set, a change event starts no debounce timer and
\* issues no config.onChange call, now or later (no cycle and no call ever
\* belongs to a change event that did not qualify); and a keydown event is not
\* processed: config.onKeyDown is not consulted, nothing is reported, nothing is
\* prevented, and document, focus and the state of the keydown chain stay as
\* they are
C7_ComposingSuppresses ==
    [][/\ (last'.op = "input" /\ isComposingIME)
            => /\ tasks' = tasks
               /\ hist' = hist
               /\ callSeq' = callSeq
               /\ ~last'.call.issued
       /\ (last'.op = "keydown" /\ isComposingIME)
            => /\ last'.cbs = <<>>
               /\ ~last'.prevented
               /\ nodes' = nodes
               /\ sel' = sel
               /\ editedNode' = editedNode
               /\ focused' = focused
               /\ keys' = keys
       /\ \A t \in tasks' : t.ev \in hist'.qualified
       /\ \A i \in 1..Len(hist'.called) : hist'.called[i] \in hist'.qualified]_vars

\* during a composition a change event was dispatched (it did not qualify, with
\* the subscriptions open) and a keydown event followed
C7_KeysDuringComposition ==
    /\ isComposingIME
    /\ subscribed
    /\ keyupsOpen
    /\ keys.open
    /\ evCount >= 1
    /\ evCount \notin hist.qualified
    /\ last.op = "keydown"

-----------------------------------------------------------------------------
(* Every source of config.onChange calls whose tokens are rendered: the     *)
(* change-event pipeline, updateText, updateDisplay with refreshTokens, the *)
(* end of an IME composition and the removal of a token, for a widget       *)
(* constructed with two complete tokens and isFocused.                      *)

CallTexts == {<<"a", SP, "b">>}

NextCalls ==
    \/ TimeoutRun
    \/ InputEvent
    \/ TimerFire
    \/ MacrotaskRun
    \/ PipelineResolveOf(ChangeTokens)
    \/ UpdateTextOf(CallTexts)
    \/ UpdateDisplayOf({TwoComplete}, {-1}, {TRUE})
    \/ CompositionStart
    \/ CompositionEnd
    \/ MouseDownRemove
    \/ TransitionEnd
    \/ RefreshResolveOf(ChangeTokens)

SpecCalls == InitChange /\ [][NextCalls]_vars

\* C2: when the tokens of a config.onChange call arrive while a call that was
\* issued later is still in flight, whichever operation issued the two, the
\* tokens are discarded: the step neither renders them nor replaces child nodes
C2_OlderResultDiscarded ==
    [][(/\ last'.op \in {"changeResolve", "refreshResolve"}
        /\ \/ \E r \in reqs' : r.seq > last'.seq
           \/ \E t \in tasks' : t.stage = "inflight" /\ t.seq > last'.seq)
        => (~last'.render /\ ~last'.mutated)]_vars

-----------------------------------------------------------------------------
(* destroy() next to what can be pending when it is called: the deferred    *)
(* focus of the constructor, a cycle of the change-event pipeline, a        *)
(* refreshTokens call and the transition of a removed token; for a widget   *)
(* constructed with two complete tokens, with and without isFocused.        *)

InitDestroy == InitOf({TwoComplete}, BOOLEAN)

NextDestroy ==
    \/ TimeoutRun
    \/ InputEvent
    \/ TimerFire
    \/ MacrotaskRun
    \/ PipelineResolveOf(ChangeTokens)
    \/ UpdateTextOf(CallTexts)
    \/ MouseDownRemove
    \/ TransitionEnd
    \/ RefreshResolveOf(ChangeTokens)
    \/ Destroy

SpecDestroy == InitDestroy /\ [][NextDestroy]_vars

\* C5: after destroy() the tokens of a config.onChange call that was in flight
\* at the time of destroy replace no child node of the container, whichever
\* operation issued the call
C5_NoMutationAfterDestroy ==
    [][(/\ ~subscribed
        /\ last'.op \in {"changeResolve", "refreshResolve"}
        /\ last'.seq <= hist.destroyedAt)
        => ~last'.mutated]_vars

\* C6: after destroy() no step that the consumer did not ask for (a timer, a
\* deferred call, a response, a native event) invokes a consumer callback
C6_NoCallbackAfterDestroy ==
    [][(~subscribed /\ last'.op \notin {"updateText", "updateDisplay", "clear"})
        => last'.cbs = <<>>]_vars

-----------------------------------------------------------------------------
(* Rendering: the constructor, updateDisplay without a caret index and      *)
(* clear, with the edited marking that the deferred focus of the            *)
(* constructor and a click on a token set, for every token sequence of the  *)
(* model.                                                                   *)

RenderTokens == TokenSeqs \cup {WithLineBreak}

InitRender == InitOf(RenderTokens, BOOLEAN)

NextRender ==
    \/ TimeoutRun
    \/ MouseDownToken
    \/ UpdateDisplayOf(RenderTokens, {-1}, {FALSE})
    \/ Clear

SpecRender == InitRender /\ [][NextRender]_vars

\* markup without the edited marking of its elements
WithoutEditedMarking(markup) ==
    [i \in 1..Len(markup) |->
        [markup[i] EXCEPT !.cls = SelectSeq(@, LAMBDA w : w # classes.EDITED)]]

\* C8: updateDisplay with tokens whose markup equals the rendered markup,
\* ignoring the edited marking, replaces no child node and leaves the child
\* nodes and the selection as they are, whether or not a node is marked edited
C8_RerenderChangesNothing ==
    [][(/\ last'.op = "updateDisplay"
        /\ classify(last'.tokens) = WithoutEditedMarking(innerHTML(nodes)))
        => /\ ~last'.mutated
           /\ nodes' = nodes
           /\ sel' = sel]_vars

\* C9: after the constructor and after updateDisplay, getNumTokens() is the
\* number of tokens that were passed; after clear() it is 0
C9_NumTokensIsTokenCount ==
    /\ last.op \in {"construct", "updateDisplay"}
        => getNumTokens(nodes) = Len(last.tokens)
    /\ last.op = "clear" => getNumTokens(nodes) = 0

\* the values of a token sequence, joined by single spaces
JoinedValues(tokens) == Join([i \in 1..Len(tokens) |-> tokens[i].value], <<SP>>)

\* no value is empty, and no value holds a zero-width space or a whitespace
\* character other than the space
PlainValues(tokens) ==
    \A i \in 1..Len(tokens) :
        /\ tokens[i].value # <<>>
        /\ \A j \in 1..Len(tokens[i].value) : tokens[i].value[j] \notin {NL, ZWSP}

\* C10 as stated: after the constructor with initialInput T and after
\* updateDisplay(T), getInnerText() is the values of T joined by single spaces
C10_InnerTextIsJoinedValues ==
    last.op \in {"construct", "updateDisplay"}
        => getInnerText(nodes) = JoinedValues(last.tokens)

\* C10, amended: the same for a T whose values are not empty and hold neither a
\* zero-width space nor a whitespace character other than the space
C10_InnerTextIsJoinedPlainValues ==
    (last.op \in {"construct", "updateDisplay"} /\ PlainValues(last.tokens))
        => getInnerText(nodes) = JoinedValues(last.tokens)

\* updateDisplay rendered two complete tokens over another display, and the
\* text is their values with one space between
C10_TwoTokensRendered ==
    /\ last.op = "updateDisplay"
    /\ last.mutated
    /\ last.tokens = TwoComplete
    /\ getInnerText(nodes) = <<"a", SP, "b">>

-----------------------------------------------------------------------------
(* Claims about clear(), checked on the rendering specification: clear is   *)
(* called on every rendered token sequence, with and without a caret.       *)

\* C11: whatever the content and the caret before it, a clear() step leaves a
\* display whose getInnerText() is the empty text and invokes config.onChange
\* once, with ('', 0, false), and no other consumer callback
C11_ClearEmptiesAndReports ==
    [][last'.op = "clear" =>
          /\ getInnerText(nodes') = <<>>
          /\ last'.cbs = <<"onChange">>
          /\ last'.call = Call(<<>>, 0, FALSE)
          /\ callSeq' = callSeq + 1]_vars

\* clear() has run on a display that is focused and holds the caret
C11_ClearedWithCaret ==
    /\ last.op = "clear"
    /\ focused
    /\ sel.kind = "in"
    /\ getInnerText(nodes) = <<>>

-----------------------------------------------------------------------------
(* Claims about updateText, checked on the round-trip specification below: *)
(* updateText on a display with or without focus and caret.                 *)

\* C12: an updateText(text) step shows the text, issues config.onChange(text,
\* 0, false) within the step itself (a pending refreshTokens call, no debounce
\* timer), and reports the loss of focus only after that call
C12_UpdateTextCallsAtOnce ==
    [][last'.op = "updateText" =>
          /\ last'.call.issued
          /\ last'.call = Call(last'.call.text, 0, FALSE)
          /\ nodes' = ParseText(last'.call.text)
          /\ Head(last'.cbs) = "onChange"
          /\ \A i \in 2..Len(last'.cbs) : last'.cbs[i] = "onFocusChanged"
          /\ last'.seq = callSeq + 1
          /\ reqs' = reqs \cup {Req(callSeq + 1, "updateText", last'.call.text)}
          /\ tasks' = tasks
          /\ ~focused']_vars

\* updateText has run on a focused widget: the call came first, then the blur
C12_UpdateTextOnFocused ==
    /\ last.op = "updateText"
    /\ last.cbs = <<"onChange", "onFocusChanged">>
    /\ last.call = Call(<<"a", SP, "b">>, 0, FALSE)
    /\ ~focused

\* updateText round trips: the texts are the joined values of the token
\* sequences, and any pending call may resolve to any of the sequences
RoundTokens == TokenSeqs \cup {WithLineBreak}

RoundTexts == {Join([i \in 1..Len(t) |-> t[i].value], <<SP>>) : t \in RoundTokens}

NextText ==
    \/ TimeoutRun
    \/ MouseDownToken
    \/ UpdateTextOf(RoundTexts)
    \/ RefreshResolveOf(RoundTokens)

SpecText == InitDestroy /\ [][NextText]_vars

\* only the last token may be incomplete
OnlyLastIncomplete(tokens) ==
    \A i \in 1..Len(tokens) : tokens[i].isIncomplete => i = Len(tokens)

\* a step that resolves an updateText call with tokens whose joined values are
\* the text of that call
RoundTripStep ==
    /\ last'.op = "refreshResolve"
    /\ \E r \in reqs \ reqs' : r.src = "updateText"
    /\ OnlyLastIncomplete(last'.tokens)
    /\ last'.query = JoinedValues(last'.tokens)

\* C13 as stated: when an updateText call with the joined values of T resolves
\* to T, getInnerText() is that joined text
C13_RoundTrip ==
    [][RoundTripStep => getInnerText(nodes') = last'.query]_vars

\* C13, amended: the same for a T whose values are not empty and hold neither a
\* zero-width space nor a whitespace character other than the space
C13_RoundTripOfPlainValues ==
    [][(RoundTripStep /\ PlainValues(last'.tokens))
          => getInnerText(nodes') = last'.query]_vars

\* an updateText call with 'a cd' resolved to a complete and an incomplete
\* token, which were rendered, and the text is 'a cd'
C13_RoundTripRendered ==
    /\ last.op = "refreshResolve"
    /\ last.mutated
    /\ last.tokens = LastIncomplete
    /\ last.query = <<"a", SP, "c", "d">>
    /\ getInnerText(nodes) = <<"a", SP, "c", "d">>

-----------------------------------------------------------------------------
(* Claims about updateDisplay, checked on a specification of its own: every *)
(* token sequence, the index omitted, naming a token or naming none, and    *)
(* both values of the flag, on displays with and without focus and caret.   *)

DisplayIndices == {-1, 0, 1}

NextDisplay ==
    \/ TimeoutRun
    \/ MouseDownToken
    \/ UpdateDisplayOf(TokenSeqs, DisplayIndices, BOOLEAN)

SpecDisplay == InitDestroy /\ [][NextDisplay]_vars

\* an updateDisplay step shows the markup of its tokens, issues a config.onChange
\* call exactly when the flag is set, with the joined values as text, and with
\* the index of a token leaves the caret on the separator after that token, or
\* at the end of the token when it is incomplete
DisplayReplacedAndCaretPlaced ==
    /\ innerHTML(nodes') = classify(last'.tokens)
    /\ last'.call.issued <=> last'.refresh
    /\ last'.call.issued =>
          /\ last'.call.text = JoinedValues(last'.tokens)
          /\ reqs' = reqs \cup {Req(callSeq + 1, "updateDisplay", last'.call.text)}
    /\ ~last'.call.issued => reqs' = reqs
    /\ last'.idx \in 0..(Len(last'.tokens) - 1) =>
          LET i == getContentNodes(nodes')[last'.idx + 1]
          IN  IF last'.tokens[last'.idx + 1].isIncomplete
              THEN sel' = Caret(Pos(i, FALSE, ChildCount(nodes'[i])))
              ELSE /\ HasClass(nodes'[i + 1], classes.SEPARATOR)
                   /\ RangeEnd(nodes', sel').n = i + 1
                   /\ getCaretNode(nodes', sel') = Ref("child", i + 1)

-----------------------------------------------------------------------------
(* Claims about the keydown chain, checked on a specification of the keys a *)
(* user types into the focused widget: the display is two complete tokens,  *)
(* a complete and an incomplete token, or an extensible and an incomplete   *)
(* token; the caret is moved and ranges are selected between the keys; the  *)
(* waits of the two debounces end at any time.                              *)

KeyTokens == {TwoComplete, LastIncomplete, Extensible}

InitKeys == InitOf(KeyTokens, BOOLEAN)

\* a key pressed by the user: the event reaches the container that has the focus
KeyDownFocused == focused /\ KeyDownOf(Keys)

NextKeys ==
    \/ TimeoutRun
    \/ MouseDownContainer
    \/ MoveCaret
    \/ SelectRange
    \/ CompositionStart
    \/ KeyDownFocused
    \/ KeyDebounceExpire
    \/ KeyNavExpire

SpecKeys == InitKeys /\ [][NextKeys]_vars

\* C15: a keydown for which config.onKeyDown returns false is not processed:
\* no blur, no caret hop, no edited node, no default prevention, no debounce
\* started, and no callback but onKeyDown itself
C15_VetoStopsProcessing ==
    [][(last'.op = "keydown" /\ ~last'.proceed) =>
          /\ focused' = focused
          /\ nodes' = nodes
          /\ sel' = sel
          /\ editedNode' = editedNode
          /\ keys' = keys
          /\ ~last'.prevented
          /\ \A i \in 1..Len(last'.cbs) : last'.cbs[i] = "onKeyDown"]_vars

\* Enter was pressed outside a composition in the focused widget and
\* config.onKeyDown returned false: the widget kept the focus
C15_EnterVetoed ==
    /\ last.op = "keydown"
    /\ last.key = "Enter"
    /\ ~last.proceed
    /\ last.cbs = <<"onKeyDown">>
    /\ ~isComposingIME
    /\ focused

\* a Backspace keydown that passed the filters, with the caret on an empty
\* separator and no range selection
BackspaceOnSeparator ==
    /\ last'.op = "keydown"
    /\ last'.key = "Backspace"
    /\ last'.proceed
    /\ ~isComposingIME
    /\ isCaretOnEmptySeparator(nodes, getCaretNode(nodes, sel))
    /\ ~isRangeSelection(nodes, sel)

\* C16: every such keydown has its default action prevented, changes no child
\* node and leaves the caret at the end of the token before the separator,
\* whether or not a keydown came shortly before it
C16_BackspaceHopsEveryTime ==
    [][BackspaceOnSeparator =>
          /\ last'.prevented
          /\ textContent(nodes') = textContent(nodes)
          /\ getCaretNode(nodes', sel') = Ref("child", getCaretNode(nodes, sel).i - 1)
          /\ getCaretTokenAndIsAtEndBoundary(nodes', sel').isAtEnd]_vars

\* a selection that is not collapsed
RangeActive == sel.kind = "in" /\ sel.a # sel.f

SpaceKey ==
    /\ last'.op = "keydown"
    /\ last'.key = " "
    /\ last'.proceed
    /\ ~isComposingIME

\* the caret is at the end of a token element; complete and extensible are read
\* from the classes of the element
CaretAtTokenEnd(complete, extensible) ==
    LET r == getCaretTokenAndIsAtEndBoundary(nodes, sel)
    IN  /\ r.token.k = "child"
        /\ r.isAtEnd
        /\ HasClass(nodes[r.token.i], classes.TOKEN)
        /\ HasClass(nodes[r.token.i], classes.INCOMPLETE) = ~complete
        /\ HasClass(nodes[r.token.i], classes.EXTENSIBLE) = extensible

\* C18: a Space keydown is intercepted (default prevented, caret moved out of
\* the token to behind it) exactly when the caret is at the end of a complete
\* token that is not extensible
C18_SpaceHopsAfterCompleteToken ==
    [][SpaceKey =>
          /\ last'.prevented <=> CaretAtTokenEnd(TRUE, FALSE)
          /\ last'.prevented =>
                sel' = Caret(Pos(0, FALSE, getCaretTokenAndIsAtEndBoundary(nodes, sel).token.i))
          /\ ~last'.prevented => sel' = sel]_vars

\* C19: an Enter or Escape keydown that config.onKeyDown lets pass, outside a
\* composition, takes the focus from the widget (reported by onFocusChanged, the
\* edited node is cleared) and has its default action and propagation stopped
C19_EnterOrEscapeBlurs ==
    [][(/\ last'.op = "keydown"
        /\ last'.key \in {"Enter", "Escape"}
        /\ last'.proceed
        /\ ~isComposingIME)
          => /\ ~focused'
             /\ last'.prevented
             /\ editedNode' = NullRef
             /\ last'.cbs = <<"onKeyDown", "onFocusChanged">>]_vars

\* Escape was pressed in the focused widget and passed the filters: the focus
\* is gone and no node is marked edited
C19_EscapeBlurred ==
    /\ last.op = "keydown"
    /\ last.key = "Escape"
    /\ last.proceed
    /\ ~isComposingIME
    /\ last.prevented
    /\ ~focused
    /\ editedNode = NullRef
    /\ \A i \in 1..Len(nodes) : ~HasClass(nodes[i], classes.EDITED)

-----------------------------------------------------------------------------
(* Claims about the operations that take a token index, checked on every    *)
(* rendered token sequence, with indices from -1 to one past the last       *)
(* token, on displays with and without focus and caret.                     *)

TokenIndices == {-1, 0, 1, 2}

NextIndex ==
    \/ TimeoutRun
    \/ MouseDownToken
    \/ UpdateDisplayOf(RenderTokens, {-1}, {FALSE})
    \/ GetTokenPositionOf(TokenIndices)
    \/ SelectNodeByIdxOf(TokenIndices, {0, 1})

SpecIndex == InitRender /\ [][NextIndex]_vars

\* the number of tokens on display
NumTokenNodes(ns) == Cardinality({i \in 1..Len(ns) : HasClass(ns[i], classes.TOKEN)})

\* C20: with an index that is negative or at least the number of tokens,
\* getTokenPosition returns null and selectNodeByIdx raises nothing and leaves
\* the caret, the edited marking and the display as they are
C20_OutOfRangeIndexIsHarmless ==
    [][(last'.idx < 0 \/ last'.idx >= NumTokenNodes(nodes)) =>
          /\ last'.op = "getTokenPosition" => last'.result = "null"
          /\ last'.op = "selectNodeByIdx" =>
                /\ last'.result # "raised"
                /\ nodes' = nodes
                /\ sel' = sel
                /\ editedNode' = editedNode]_vars

-----------------------------------------------------------------------------
(* The caret that a render restores: a focused widget is constructed with   *)
(* any of the token sequences below, clicks and the deferred focus leave    *)
(* the caret at any place of the display, and updateDisplay without a caret *)
(* index renders any of the sequences, shorter or longer than the text the  *)
(* caret was captured in.                                                   *)

RestoreTokens == {<<>>, TwoComplete, LastIncomplete, EmptyValue, Extensible, TwoIncomplete}

InitRestore == InitOf(RestoreTokens, {TRUE})

NextRestore ==
    \/ TimeoutRun
    \/ MouseDownToken
    \/ UpdateDisplayOf(RestoreTokens, {-1}, {FALSE})

SpecRestore == InitRestore /\ [][NextRestore]_vars

\* an updateDisplay step without a caret index that replaced the markup after
\* capturing a caret offset greater than zero: the offset was restored
RestoringStep ==
    /\ last'.op = "updateDisplay"
    /\ last'.idx = -1
    /\ last'.mutated
    /\ focused
    /\ sel.kind = "in"
    /\ saveSelection(nodes, sel) > 0

\* the text that tokenizeDisplay fixes the captured offset against
SearchQuery(tokens) ==
    IF Len(tokens) > 0 /\ ~tokens[Len(tokens)].isIncomplete
    THEN Trim(JoinedValues(tokens)) ELSE JoinedValues(tokens)

\* the caret is collapsed at the end of the text on display: at the end of the
\* last content node or directly behind it
CaretAtEndOfText(ns, s) ==
    /\ s.kind = "in"
    /\ s.a = s.f
    /\ LET content == getContentNodes(ns)
           i == content[Len(content)]
       IN  s.a \in {Pos(i, TRUE, Len(ns[i].text)), Pos(i, FALSE, ChildCount(ns[i])),
                    Pos(0, FALSE, i)}

\* C21 as stated: restoring a captured offset greater than the length of the
\* new text raises nothing, leaves the selection inside the container and puts
\* the caret at the end of the text
C21_RestoreClamps ==
    [][(RestoringStep /\ saveSelection(nodes, sel) > Len(SearchQuery(last'.tokens)))
          => /\ last'.result = "done"
             /\ sel'.kind = "in"
             /\ CaretAtEndOfText(nodes', sel')]_vars

\* C21 for tokens of which only the last may be incomplete and whose values
\* are not empty and hold neither a zero-width space nor a whitespace character
\* other than the space
C21_RestoreClampsForPlainValues ==
    [][(/\ RestoringStep
        /\ saveSelection(nodes, sel) > Len(SearchQuery(last'.tokens))
        /\ OnlyLastIncomplete(last'.tokens)
        /\ PlainValues(last'.tokens))
          => /\ last'.result = "done"
             /\ sel'.kind = "in"
             /\ CaretAtEndOfText(nodes', sel')]_vars

\* updateDisplay rendered 'a b' in the focused widget and restored the caret:
\* it is behind the token 'b', at the end of the text
C21_ClampedToShorterText ==
    /\ last.op = "updateDisplay"
    /\ last.idx = -1
    /\ last.mutated
    /\ last.result = "done"
    /\ last.tokens = TwoComplete
    /\ focused
    /\ sel = Caret(Pos(0, FALSE, 3))

-----------------------------------------------------------------------------
(* The widget of the README's usage: constructed with config.onChange alone   *)
(* and with isFocused, then resized, hovered, clicked, blurred, driven by     *)
(* keys, by the removal of tokens and by the public operations.               *)

DefaultsKeys == {"Enter", "ArrowLeft"}

InitDefaults == InitWith({TwoComplete}, {TRUE}, {{"onChange"}}, {FALSE})

NextDefaults ==
    \/ TimeoutRun
    \/ MouseDownContainer
    \/ MouseDownRemove
    \/ TransitionEnd
    \/ UserBlur
    \/ (focused /\ KeyDownOf(DefaultsKeys))
    \/ KeyDebounceExpire
    \/ KeyNavExpire
    \/ Resize
    \/ ResizeExpire
    \/ MouseOver
    \/ MouseOut
    \/ SelectNodeByIdxOf({0}, {0})
    \/ GetTokenPositionOf({0})
    \/ UpdateTextOf(CallTexts)
    \/ Clear
    \/ Destroy

SpecDefaults == InitDefaults /\ [][NextDefaults]_vars

-----------------------------------------------------------------------------
(* The page loads the widget in each browser that detect() can name, or in   *)
(* one it cannot name, and the user clicks, moves the caret and presses keys. *)

\* what detect() reports: the supported browsers, two others and no browser
DetectedNames == Browsers \cup {"opera", "ios", NoBrowser}

InitLoad == InitLoaded(DetectedNames, {TwoComplete}, BOOLEAN, {TestConfig}, {FALSE})

NextLoad ==
    \/ (browserName # LoadError /\ TimeoutRun)
    \/ (browserName # LoadError /\ MouseDownContainer)
    \/ (browserName # LoadError /\ MouseDownToken)
    \/ (browserName # LoadError /\ MoveCaret)
    \/ (browserName # LoadError /\ UserBlur)
    \/ (browserName # LoadError /\ focused /\ KeyDownOf({"ArrowLeft", "Backspace"}))
    \/ (browserName # LoadError /\ KeyDebounceExpire)
    \/ (browserName # LoadError /\ KeyNavExpire)

SpecLoad == InitLoad /\ [][NextLoad]_vars

\* C23: the module loads in every browser, a detected name that is one of the
\* supported browsers is the exported browserName, and every other name gives
\* the name of the fallback
C23_ResolvesToOwnRow ==
    /\ browserName # LoadError
    /\ detected \in Browsers => browserName = detected
    /\ detected \notin Browsers => browserName = "chrome"

\* in Firefox the widget took the focus with the separators of the Chrome row,
\* which hold no zero width space
C23_FirefoxGetsChromeRow ==
    /\ detected = "firefox"
    /\ last.op = "timeoutFocus"
    /\ separatorText = <<>>
    /\ ~shouldReplaceNWSP

-----------------------------------------------------------------------------
(* The window is resized, the widget is clicked and blurred and its tokens   *)
(* are removed, in a window of either width.                                 *)

WrapTokens == {<<>>, TwoComplete, LastIncomplete}

InitWrap == InitWith(WrapTokens, BOOLEAN, {TestConfig}, BOOLEAN)

NextWrap ==
    \/ Resize
    \/ ResizeExpire
    \/ TimeoutRun
    \/ MouseDownContainer
    \/ UserBlur
    \/ MouseDownRemove
    \/ TransitionEnd
    \/ Destroy

SpecWrap == InitWrap /\ [][NextWrap]_vars

\* a step invoked config.onWrap
WrapReported(step) == \E i \in 1..Len(step.cbs) : step.cbs[i] = "onWrap"

\* C24: a step invokes config.onWrap, with the wrap state it leaves in
\* this.hasWrapped, exactly when that state differs from the one the widget
\* held, which is the one it reported last: onWrap is never invoked twice in a
\* row with the same value
C24_WrapIsEdgeTriggered ==
    [][/\ WrapReported(last') => hasWrapped' # hasWrapped
       /\ hasWrapped' # hasWrapped => WrapReported(last')]_vars

\* the last token of a wrapped widget was removed: the transition's end
\* reported that the content no longer wraps
C24_RemovalUnwraps ==
    /\ last.op = "transitionend"
    /\ WrapReported(last)
    /\ ~hasWrapped
    /\ narrow

-----------------------------------------------------------------------------
(* selectNodeByIdx on a focused widget whose text the user changes, before   *)
(* and after the consumer answers the change.                                *)

SelectTokens == {TwoComplete, LastIncomplete, EmptyValue}

InitSelect == InitOf(SelectTokens, {TRUE})

NextSelect ==
    \/ TimeoutRun
    \/ InputEvent
    \/ TimerFire
    \/ MacrotaskRun
    \/ PipelineResolveOf(SelectTokens)
    \/ SelectNodeByIdxOf({0, 1}, {0, 1, 2})

SpecSelect == InitSelect /\ [][NextSelect]_vars

\* the text of the child node that holds token idx
TokenText(ns, idx) == ns[getContentNodes(ns)[idx + 1]].text

\* selectNodeByIdx(idx, offset) was called for a token on display, with an
\* offset inside the token
SelectsInsideToken(ns, step) ==
    /\ step.op = "selectNodeByIdx"
    /\ step.idx >= 0
    /\ step.idx < Len(getContentNodes(ns))
    /\ step.offset <= Len(TokenText(ns, step.idx))

\* the offset into the logical text of the place that is offset characters
\* into token idx: the text of the elements before it, then the space that
\* joins it to them
LinearOffset(ns, idx, offset) ==
    LET before == getInnerText(children(SubSeq(ns, 1, getContentNodes(ns)[idx + 1] - 1)))
    IN  Len(before) + (IF before # <<>> THEN 1 ELSE 0) + offset

\* C25: selectNodeByIdx(idx, offset) for a token on display and an offset
\* inside it puts the caret at that offset of the token's text and calls
\* config.onCaretPositionChanged with the text on display, the caret's offset
\* into that text and false, and config.onFocusChanged
C25_SelectReportsCaret ==
    [][SelectsInsideToken(nodes, last') =>
          /\ last'.result = "done"
          /\ sel' = Caret(Pos(getContentNodes(nodes)[last'.idx + 1], TRUE, last'.offset))
          /\ last'.cbs = <<"onCaretPositionChanged", "onFocusChanged">>
          /\ last'.report = Call(getInnerText(nodes'),
                                 LinearOffset(nodes', last'.idx, last'.offset), FALSE)]_vars

\* after the user typed, selectNodeByIdx reported the caret with a text that
\* is no longer the text on display
C25_StaleTextReported ==
    /\ last.op = "selectNodeByIdx"
    /\ last.result = "done"
    /\ last.report.issued
    /\ last.report.text # getInnerText(nodes)
    /\ last.report.text = innerText

-----------------------------------------------------------------------------
(* The widget from its construction, with and without isFocused: the user    *)
(* clicks and blurs it, the consumer renders, clears and destroys it. The    *)
(* callback the constructor passed to setTimeout is run by the event loop,   *)
(* whatever else happens.                                                    *)

InitFocus == InitOf(TokenSeqs, BOOLEAN)

NextFocus ==
    \/ TimeoutRun
    \/ MouseDownContainer
    \/ UserBlur
    \/ UpdateDisplayOf({<<>>, LastIncomplete}, {-1}, {FALSE})
    \/ Clear
    \/ Destroy

\* the step of TimeoutRun that runs the deferred focus of the constructor
RunDeferredFocus ==
    \E t \in timeouts : \E D1 \in {onEmptyInputClicked(D0)} :
        /\ t.kind = "focus"
        /\ timeouts' = timeouts \ {t}
        /\ SetDoc(D1)
        /\ focused' = TRUE
        /\ last' = [Step("timeoutFocus") EXCEPT
                        !.report = onCaretPositionChanged(D1, innerText),
                        !.cbs = <<"onCaretPositionChanged", "onFocusChanged">>]
        /\ UNCHANGED <<env, cached, keys, isComposingIME, subscribed, keyupsOpen, tasks, reqs,
                       evCount, callSeq, hist>>

SpecFocus == InitFocus /\ [][NextFocus]_vars /\ WF_vars(RunDeferredFocus)

\* the constructor's deferred focus is pending
FocusDeferred == \E t \in timeouts : t.kind = "focus"

\* the deferred focus has just run: the container has the focus, the caret is
\* collapsed at the end of the last child node and onFocusChanged was called
FocusedAtEnd ==
    /\ last.op = "timeoutFocus"
    /\ focused
    /\ sel.kind = "in"
    /\ sel.a = sel.f
    /\ sel.a.n = Len(nodes)
    /\ sel.a.o = (IF IsElement(nodes[Len(nodes)]) THEN ChildCount(nodes[Len(nodes)])
                  ELSE Len(nodes[Len(nodes)].text))
    /\ \E i \in 1..Len(last.cbs) : last.cbs[i] = "onFocusChanged"

\* C26: a widget constructed with isFocused eventually takes the focus with
\* the caret at the end of its content and reports onFocusChanged(true); a
\* widget constructed without isFocused never runs a deferred focus
C26_FocusesWhenAsked ==
    /\ FocusDeferred ~> FocusedAtEnd
    /\ ~FocusDeferred => [](last.op # "timeoutFocus")

\* the deferred focus ran on a display of two tokens with their separators
C26_DeferredFocusRan ==
    /\ FocusedAtEnd
    /\ getNumTokens(nodes) = 4
    /\ \A t \in timeouts : t.kind # "focus"

-----------------------------------------------------------------------------
(* Renders of every kind: the constructor's, those of updateDisplay and      *)
(* those that answer what the user typed, with token sequences that are      *)
(* empty, complete, incomplete at the end or incomplete throughout.          *)

ClassifyTokens == {<<>>, LastIncomplete, TwoIncomplete}

InitClassify == InitOf({EmptyValue, WithLineBreak}, {TRUE})

NextClassify ==
    \/ TimeoutRun
    \/ InputEvent
    \/ TimerFire
    \/ MacrotaskRun
    \/ PipelineResolveOf({TwoComplete, TwoIncomplete})
    \/ UpdateDisplayOf(ClassifyTokens, {-1}, {FALSE})

SpecClassify == InitClassify /\ [][NextClassify]_vars

\* what a child node is: the content node of a token, a separator, the node of
\* the empty state, or something else
NodeKind(n) ==
    IF ~IsElement(n) THEN <<"text">>
    ELSE IF HasClass(n, classes.TOKEN) THEN <<"content", n.idx>>
    ELSE IF HasClass(n, classes.SEPARATOR) THEN <<"separator">>
    ELSE IF HasClass(n, "init-token") THEN <<"empty">>
    ELSE <<"other">>

\* the nodes a token sequence calls for: a content node per token, in order,
\* and a separator right after the content node of each complete token
NodesFor(tokens) ==
    IF tokens = <<>> THEN <<<<"empty">>>>
    ELSE Concat([i \in 1..Len(tokens) |->
                    IF tokens[i].isIncomplete THEN <<<<"content", i - 1>>>>
                    ELSE <<<<"content", i - 1>>, <<"separator">>>>])

\* after a step in which tokenizeDisplay ran, the constructor's included, the
\* child nodes are those its tokens call for
RenderedAsGiven(ns, step) ==
    step.render => [i \in 1..Len(ns) |-> NodeKind(ns[i])] = NodesFor(step.tokens)

\* C27: after every render the child nodes are one content node per token, in
\* token order, with a separator right after the content node of each complete
\* token and none after that of an incomplete token; an empty token sequence
\* renders the node of the empty state alone
C27_SeparatorsFollowCompleteTokens == RenderedAsGiven(nodes, last)

\* the consumer answered what the user typed with two incomplete tokens: the
\* render left two content nodes and no separator
C27_IncompleteTokensRendered ==
    /\ last.op = "changeResolve"
    /\ last.mutated
    /\ last.tokens = TwoIncomplete
    /\ Len(nodes) = 2

-----------------------------------------------------------------------------
(* The caret offsets reported to the consumer: focus, selectNodeByIdx, keys   *)
(* and the change cycle on a focused widget.                                  *)

CaretTokens == {TwoComplete, LastIncomplete}

InitCaret == InitOf(CaretTokens, {TRUE})

CaretKeys == {" ", "Backspace", "ArrowLeft"}

NextCaret ==
    \/ TimeoutRun
    \/ MouseDownContainer
    \/ SelectNodeByIdxOf({0}, {1})
    \/ InputEvent
    \/ TimerFire
    \/ MacrotaskRun
    \/ PipelineResolveOf(CaretTokens)
    \/ (focused /\ KeyDownOf(CaretKeys))
    \/ KeyDebounceExpire
    \/ KeyNavExpire

SpecCaret == InitCaret /\ [][NextCaret]_vars

\* the caret argument of a callback lies inside the text passed with it
CaretWithinText(c) == c.issued => 0 <= c.caret /\ c.caret <= Len(c.text)

\* C28: every caret offset passed to config.onChange and to
\* config.onCaretPositionChanged lies between 0 and the length of the text
\* passed with it, wherever the caret is, the separator after the last token
\* included
C28_ReportedCaretInText ==
    /\ CaretWithinText(last.call)
    /\ CaretWithinText(last.report)

\* the deferred focus put the caret on the separator after the last token of an
\* untouched display and reported an offset one past the end of its text
C28_CaretPastEndReported ==
    /\ last.op = "timeoutFocus"
    /\ last.report.issued
    /\ last.report.sep
    /\ last.report.text = getInnerText(nodes)
    /\ sel.a.n = Len(nodes)
    /\ last.report.caret = Len(last.report.text) + 1

-----------------------------------------------------------------------------
(* The caret across a render: a focused widget whose caret is put at the     *)
(* start or inside of a token by selectNodeByIdx, or behind the last token   *)
(* by the deferred focus, is rendered again by updateDisplay without a caret *)
(* index and by the change cycle.                                            *)

CaptureTokens == {<<>>, TwoComplete, LastIncomplete}

InitCapture == InitOf(CaptureTokens, {TRUE})

NextCapture ==
    \/ TimeoutRun
    \/ SelectNodeByIdxOf({0, 1}, {0, 1})
    \/ UpdateDisplayOf(CaptureTokens, {-1}, {FALSE})
    \/ InputEvent
    \/ TimerFire
    \/ MacrotaskRun
    \/ PipelineResolveOf(CaptureTokens)

SpecCapture == InitCapture /\ [][NextCapture]_vars

\* a step whose tokenizeDisplay replaced the markup while the widget had the
\* focus and the selection was inside it, the offset captured before the
\* replace being at most the length of the new text
RenderRestoring ==
    /\ last'.render
    /\ last'.mutated
    /\ focused
    /\ isCaretInContainer(sel) = "true"
    /\ saveSelection(nodes, sel) \in 0..Len(SearchQuery(last'.tokens))

\* the collapsed selections a user can make in the display
Carets(ns) == {Caret(p) : p \in UNION {ClickPositions(ns, i) : i \in 1..Len(ns)}}

\* the caret is at offset c: reading it gives c, or it was at a place that
\* reads c, at the end of a complete token, and has left the token from there
CaretReadsAs(ns, s, c) ==
    \E s0 \in Carets(ns) :
        /\ getCaretPosition(ns, s0) = c
        /\ \/ s = s0
           \/ /\ isCaretAtTheEndOfCompleteToken(ns, s0, FALSE) = "true"
              /\ s = moveCursorOutFromTokenEnd(ns, s0)

\* C29: a render that replaces the content of the focused widget while the
\* selection is inside it leaves the caret at the offset captured before the
\* replace, for every captured offset from 0 to the length of the new text
C29_CapturedOffsetRestored ==
    [][RenderRestoring => CaretReadsAs(nodes', sel', saveSelection(nodes, sel))]_vars

\* updateDisplay rendered 'a cd' in the focused widget after capturing offset 0
\* (the restore of any other offset puts the caret into a child node): the
\* caret is at the start of the container, where getCaretPosition reads the
\* length of the whole display
C29_OffsetZeroNotRestored ==
    /\ last.op = "updateDisplay"
    /\ last.mutated
    /\ last.result = "done"
    /\ last.tokens = LastIncomplete
    /\ focused
    /\ sel = Caret(Pos(0, FALSE, 0))
    /\ getCaretPosition(nodes, sel) = 4

-----------------------------------------------------------------------------
(* The caret after a restore: a focused widget whose caret is behind the     *)
(* last token or at the end of a token is rendered again, by updateDisplay   *)
(* without a caret index and by the change cycle, with sequences that end in *)
(* a complete, an incomplete and an extensible token.                        *)

\* a complete token before a complete token that is extensible
LastExtensible == <<Tok(<<"a">>, "class1", FALSE, FALSE), Tok(<<"b">>, "class2", FALSE, TRUE)>>

HopTokens == {TwoComplete, LastIncomplete, LastExtensible}

InitHop == InitOf(HopTokens, {TRUE})

NextHop ==
    \/ TimeoutRun
    \/ SelectNodeByIdxOf({1}, {1})
    \/ UpdateDisplayOf(HopTokens, {-1}, {FALSE})
    \/ InputEvent
    \/ TimerFire
    \/ MacrotaskRun
    \/ PipelineResolveOf(HopTokens)

SpecHop == InitHop /\ [][NextHop]_vars

\* a step whose tokenizeDisplay replaced the markup and restored a captured
\* caret offset without raising
RestoredByRender ==
    /\ last'.render
    /\ last'.mutated
    /\ last'.result # "raised"
    /\ keyupsOpen' = keyupsOpen
    /\ focused
    /\ isCaretInContainer(sel) = "true"
    /\ saveSelection(nodes, sel) > 0

\* the captured offset of that step exceeds the new text and is clamped
Clamped == saveSelection(nodes, sel) > Len(SearchQuery(last'.tokens))

\* where restoreSelection put the caret in that step
RestoredPlace ==
    restoreSelection(nodes', sel',
                     fixSavedSelection(saveSelection(nodes, sel),
                                       SearchQuery(last'.tokens)).savedSel).sel

\* the caret is in a token that is incomplete, or complete and extensible
\* ("extensible"), or complete and not extensible ("complete")
InTokenOf(ns, s, kind) ==
    LET r == getCaretTokenAndIsAtEndBoundary(ns, s)
    IN  /\ r.token.k = "child"
        /\ HasClass(ns[r.token.i], classes.TOKEN)
        /\ CASE kind = "incomplete" -> HasClass(ns[r.token.i], classes.INCOMPLETE)
             [] kind = "extensible" -> /\ ~HasClass(ns[r.token.i], classes.INCOMPLETE)
                                       /\ HasClass(ns[r.token.i], classes.EXTENSIBLE)
             [] OTHER -> /\ ~HasClass(ns[r.token.i], classes.INCOMPLETE)
                         /\ ~HasClass(ns[r.token.i], classes.EXTENSIBLE)

\* ... and at the end of that token
AtEndOf(ns, s, kind) ==
    /\ InTokenOf(ns, s, kind)
    /\ getCaretTokenAndIsAtEndBoundary(ns, s).isAtEnd

\* the caret has left the token that place is in: it is collapsed in the
\* container between that token and the separator that follows it
OnFollowingSeparator(ns, s, place) ==
    /\ s = Caret(Pos(0, FALSE, place.a.n))
    /\ place.a.n < Len(ns)
    /\ HasClass(ns[place.a.n + 1], classes.SEPARATOR)

-----------------------------------------------------------------------------
(* The caret a render preserves: the widget is focused by a click on the     *)
(* container and blurred; updateDisplay with a caret index leaves the        *)
(* selection inside a widget that has no focus; updateDisplay without one    *)
(* and the change cycle render.                                              *)

PreserveTokens == {TwoComplete, LastIncomplete}

InitPreserve == InitOf(PreserveTokens, {FALSE})

NextPreserve ==
    \/ MouseDownContainer
    \/ UserBlur
    \/ UpdateDisplayOf({TwoComplete}, {-1, 0}, {FALSE})
    \/ InputEvent
    \/ TimerFire
    \/ MacrotaskRun
    \/ PipelineResolveOf({LastIncomplete})

SpecPreserve == InitPreserve /\ [][NextPreserve]_vars

\* the widget has the focus and the anchor of the selection is inside it
HoldsCaret == focused /\ isCaretInContainer(sel) = "true"

\* the selections a document can have when the widget is constructed
SelectionsAtConstruction == {NoSelection, OutsideSelection, Caret(Pos(0, FALSE, 0))}

\* C31: a render captures the caret offset only when the widget has the focus
\* and the anchor of the selection is inside the container; a render without
\* them replaces the content and does nothing to the selection beyond what
\* the replace of the child nodes does; the render of the constructor captures
\* nothing, whatever the focus and the selection
C31_PreservesCaretOnlyWithFocus ==
    /\ last.op = "construct" =>
          \A s \in SelectionsAtConstruction, hasFocus \in BOOLEAN :
              ~tokenizeDisplay(Doc(<<>>, s, NullRef), hasFocus, last.tokens, TRUE).saved
    /\ [][last'.render =>
             \E td \in {tokenizeDisplay(D0, focused, last'.tokens, FALSE)} :
                 /\ td.saved => HoldsCaret
                 /\ (td.mutated /\ last'.idx = -1 /\ ~HoldsCaret) =>
                       /\ last'.result # "raised"
                       /\ last'.mutated
                       /\ sel' = SelectionAfterReplace(sel)]_vars

\* updateDisplay without a caret index replaced the content of a widget that
\* had no focus while the selection was inside it: the selection is where the
\* replace of the child nodes left it, at the start of the container
C31_RenderedWithoutFocus ==
    /\ last.op = "updateDisplay"
    /\ last.idx = -1
    /\ last.mutated
    /\ last.result = "done"
    /\ ~focused
    /\ sel = Caret(Pos(0, FALSE, 0))

-----------------------------------------------------------------------------
(* The widget without a resolvable selection: the page removes every range   *)
(* of the selection (utils.removeCursor, exported for it) while the widget   *)
(* keeps the focus; keys, renders and the public operations follow.          *)

\* the page calls utils.removeCursor(): the selection has no range and no
\* anchor node any more; the focus stays where it is
RemoveCursor ==
    /\ sel.kind # "none"
    /\ sel' = removeCursor
    /\ last' = Step("removeCursor")
    /\ UNCHANGED <<env, cached, keys, nodes, focused, editedNode, isComposingIME, subscribed,
                   keyupsOpen, tasks, reqs, timeouts, evCount, callSeq, hist>>

UnresolvedTokens == {TwoComplete, LastIncomplete}

UnresolvedKeys == {" ", "Backspace", "ArrowLeft"}

InitUnresolved == InitOf(UnresolvedTokens, {TRUE})

NextUnresolved ==
    \/ TimeoutRun
    \/ RemoveCursor
    \/ (focused /\ KeyDownOf(UnresolvedKeys))
    \/ KeyDebounceExpire
    \/ KeyNavExpire
    \/ UpdateDisplayOf(UnresolvedTokens, {-1}, {FALSE})
    \/ GetTokenPositionOf({0})
    \/ Clear

SpecUnresolved == InitUnresolved /\ [][NextUnresolved]_vars

\* C32: while the selection has no range, the capture of the caret offset
\* returns null and the end-of-token and caret-in-container tests return
\* false; no keydown handler, no render and no public operation raises
C32_UnresolvedSelectionIsHarmless ==
    /\ [](sel.kind = "none" =>
            /\ saveSelection(nodes, sel) = -1
            /\ isCaretInContainer(sel) = "false"
            /\ \A asIncomplete \in BOOLEAN :
                   isCaretAtTheEndOfCompleteToken(nodes, sel, asIncomplete) = "false")
    /\ [][sel.kind = "none" =>
             /\ last'.result # "raised"
             /\ keys.open => keys'.open]_vars

\* the focused widget had no selection when updateDisplay was called: the
\* call raised before it replaced the content
C32_RenderRaisedWithoutSelection ==
    /\ last.op = "updateDisplay"
    /\ last.result = "raised"
    /\ ~last.mutated
    /\ focused
    /\ sel.kind = "none"

-----------------------------------------------------------------------------
(* Removal of a token by its remove button: the mousedown marks the token,   *)
(* the end of its max-width transition takes it out and re-tokenizes.        *)
(* Renders by updateDisplay and by the responses of the re-tokenize calls,    *)
(* clicks on the empty part of the container and blurs come in between.      *)
(* The browser ends every transition that has started.                       *)

RemovalTokens == {<<>>, TwoComplete}

InitRemoval == InitOf({TwoComplete}, {FALSE})

\* the tokens that carry the removed class
Outstanding == {i \in 1..Len(nodes) : HasClass(nodes[i], classes.REMOVED)}

NextRemoval ==
    \/ (Cardinality(Outstanding) + callSeq < MaxCalls /\ MouseDownRemove)
    \/ TransitionEnd
    \/ MouseDownContainer
    \/ UserBlur
    \/ UpdateDisplayOf({TwoComplete}, {-1}, {FALSE})
    \/ RefreshResolveOf(RemovalTokens)

SpecRemoval == InitRemoval /\ [][NextRemoval]_vars /\ WF_vars(TransitionEnd)

RemovableValues == {<<"a">>, <<"b">>}

\* a token with the text v is in the container / carries the removed class
TokenPresent(ns, v) ==
    \E i \in 1..Len(ns) : HasClass(ns[i], classes.TOKEN) /\ ns[i].text = v

MarkedRemoved(ns, v) ==
    \E i \in 1..Len(ns) : HasClass(ns[i], classes.REMOVED) /\ ns[i].text = v

\* the mousedown on the remove button marks a token and takes no token out
ClickOnlyMarks ==
    last'.op = "mousedownRemove" =>
        /\ \A v \in RemovableValues : TokenPresent(nodes, v) <=> TokenPresent(nodes', v)
        /\ \E v \in RemovableValues : ~MarkedRemoved(nodes, v) /\ MarkedRemoved(nodes', v)
        /\ ~last'.call.issued

\* a marked token leaves the container at the end of its transition or with
\* the content that a render replaces
MarkedLeavesAtTransitionEnd ==
    \A v \in RemovableValues :
        (MarkedRemoved(nodes, v) /\ ~TokenPresent(nodes', v)) =>
            \/ last'.op = "transitionend"
            \/ last'.render /\ last'.mutated

\* the transition of the token with the text v has ended: the token is out
\* of the container and onChange was called with the text without it
RemovedAndRetokenized(v) ==
    /\ last.op = "transitionend"
    /\ ~TokenPresent(nodes, v)
    /\ last.call.issued
    /\ last.call.text = getInnerText(nodes)
    /\ \A j \in 1..Len(last.call.text) : last.call.text[j] # v[1]

\* a render replaced the content of the container
ContentReplaced == last.render /\ last.mutated

-----------------------------------------------------------------------------
(* The mouse and the clipboard while a composition is active: the widget has *)
(* the hover callbacks, the user starts and ends compositions, clicks on the *)
(* container and on remove buttons, moves the mouse over and out, and either *)
(* pastes once or clicks on tokens.                                          *)

Clipboards == {<<"x", NL>>, <<"x", NL, "x">>}

InitPointer == InitWith({TwoComplete}, {TRUE}, {Callbacks}, {FALSE})

\* no token is marked edited and no click on a token waits for its timeout
NoTokenClicked == editedNode.k # "child" /\ \A t \in timeouts : t.kind # "click"

NextPointer ==
    \/ TimeoutRun
    \/ CompositionStart
    \/ CompositionEnd
    \/ MouseDownContainer
    \/ (evCount = 0 /\ MouseDownToken)
    \/ MouseDownRemove
    \/ TransitionEnd
    \/ MouseOver
    \/ MouseOut
    \/ (evCount = 0 /\ NoTokenClicked /\ PasteOf(Clipboards))

SpecPointer == InitPointer /\ [][NextPointer]_vars

PointerAndPasteSteps ==
    {"mousedownContainer", "mousedownToken", "timeoutClick", "mousedownRemove",
     "mouseover", "mouseout", "paste"}

\* C34 as stated: while a composition is active a mousedown, a mouseover, a
\* mouseout and a paste leave the content, the caret and the edited node as
\* they are, report nothing and remove nothing
C34_ComposingSuppressesPointerAndPaste ==
    [][(isComposingIME /\ last'.op \in PointerAndPasteSteps) =>
           /\ nodes' = nodes
           /\ sel' = sel
           /\ editedNode' = editedNode
           /\ last'.cbs = <<>>
           /\ ~last'.prevented]_vars

\* C34: while a composition is active the mousedown, mouseover, mouseout and
\* paste handlers run as they do outside of one: the click on the container
\* places the caret and reports the focus, the click on a token marks it
\* edited and reports the focus, the click on a remove button marks the token
\* removed, the hover is reported, and the paste inserts the plain text; of
\* what follows only the change event of the insertion is suppressed
C34_ComposingPassesPointerAndPaste ==
    [][isComposingIME =>
           /\ last'.op = "mousedownContainer" =>
                 /\ sel' = onEmptyInputClicked(D0).sel
                 /\ last'.cbs = <<"onCaretPositionChanged", "onFocusChanged">>
           /\ last'.op = "mousedownToken" => \E t \in timeouts' : t.kind = "click"
           /\ last'.op = "timeoutClick" =>
                 /\ \E t \in timeouts \ timeouts' : editedNode' = t.target
                 /\ editedNode'.k = "child" =>
                        HasClass(nodes'[editedNode'.i], classes.EDITED)
                 /\ last'.cbs = <<"onCaretPositionChanged", "onFocusChanged">>
           /\ last'.op = "mousedownRemove" =>
                 /\ Cardinality({i \in 1..Len(nodes') : HasClass(nodes'[i], classes.REMOVED)})
                       = Cardinality(Outstanding) + 1
                 /\ last'.prevented
           /\ last'.op = "mouseover" =>
                 (last'.idx >= 0 <=> last'.cbs = <<"onMouseOverToken">>)
           /\ last'.op = "mouseout" => last'.cbs = <<"onMouseOutTokenizer">>
           /\ last'.op = "paste" =>
                 /\ last'.prevented
                 /\ Len(textContent(nodes')) > Len(textContent(nodes))
                 /\ tasks' = tasks]_vars

\* a token was marked removed and text was pasted during a composition
C34_PastedWhileComposing ==
    /\ isComposingIME
    /\ last.op = "paste"
    /\ last.mutated
    /\ Outstanding # {}

-----------------------------------------------------------------------------
(* The arguments of the debounced onChange call: between the change event    *)
(* and the call the caret is put elsewhere by selectNodeByIdx and the        *)
(* content is replaced by updateDisplay.                                     *)

InitCaptured == InitOf({TwoComplete}, {TRUE})

NextCaptured ==
    \/ TimeoutRun
    \/ InputEvent
    \/ TimerFire
    \/ MacrotaskRun
    \/ SelectNodeByIdxOf({0}, {0, 1})
    \/ UpdateDisplayOf({LastIncomplete}, {-1}, {FALSE})

SpecCaptured == InitCaptured /\ [][NextCaptured]_vars

\* the cycle of change event ev
CycleOf(ts, ev) == {t \in ts : t.ev = ev}

\* C35: the cycle of a qualifying change event holds the text and the caret
\* offset read at the event, no later step changes them, and the onChange
\* call of the cycle passes them
C35_CallPassesCapturedTextAndCaret ==
    [][/\ (last'.op = "input" /\ last'.ev \in hist'.qualified) =>
              \E t \in CycleOf(tasks', last'.ev) :
                  /\ t.text = getInnerText(nodes')
                  /\ t.caret = getCaretPosition(nodes', sel')
       /\ \A t \in tasks' : \A u \in CycleOf(tasks, t.ev) :
              t.text = u.text /\ t.caret = u.caret
       /\ last'.op = "macrotask" =>
              \E u \in CycleOf(tasks, last'.ev) :
                  /\ last'.call.issued
                  /\ last'.call.text = u.text
                  /\ last'.call.caret = u.caret]_vars

\* onChange was called with the text and the caret offset of the event
\* after the content was replaced and the caret was put elsewhere
C35_CalledWithEarlierTextAndCaret ==
    /\ last.op = "macrotask"
    /\ last.call.issued
    /\ last.call.text # getInnerText(nodes)
    /\ last.call.caret # getCaretPosition(nodes, sel)
    /\ getCaretPosition(nodes, sel) >= 0

-----------------------------------------------------------------------------
(* getInnerText of rendered tokens whose values hold whitespace: a line      *)
(* break, and a space followed by a line break.                              *)

RunTokens ==
    {TwoComplete, WithLineBreak,
     <<Tok(<<"a", SP, NL, "b">>, "class1", FALSE, FALSE), Tok(<<"c">>, "class2", FALSE, FALSE)>>}

InitRuns == InitOf(RunTokens, {FALSE})

NextRuns ==
    \/ UpdateDisplayOf(RunTokens, {-1}, {FALSE})
    \/ MouseDownToken
    \/ TimeoutRun
    \/ Clear

SpecRuns == InitRuns /\ [][NextRuns]_vars

\* the container shows the tokens of the step before
ShowsTokens ==
    /\ last.op \in {"construct", "updateDisplay"}
    /\ last.result # "raised"
    /\ last.tokens # <<>>

\* C36 as stated: the text of getInnerText() holds no two whitespace
\* characters in a row
C36_InnerTextHasNoWhitespaceRun ==
    \A j \in 1..(Len(getInnerText(nodes)) - 1) :
        ~(IsWhitespace(getInnerText(nodes)[j]) /\ IsWhitespace(getInnerText(nodes)[j + 1]))

\* C36: every whitespace character of the text of getInnerText() is a space,
\* and the text of rendered tokens is their values joined by single spaces
\* with every whitespace character of a value as one space: a run of
\* whitespace in a value is a run of spaces of the same length
C36_InnerTextHasSpaceForEachWhitespace ==
    \E text \in {getInnerText(nodes)} :
        /\ \A j \in 1..Len(text) : IsWhitespace(text[j]) => text[j] = SP
        /\ ShowsTokens =>
              \E joined \in {JoinedValues(last.tokens)} :
                  /\ Len(text) = Len(joined)
                  /\ \A j \in 1..Len(text) :
                         text[j] = IF joined[j] \in {SP, NL} THEN SP ELSE joined[j]

\* the value "a", space, line break, "b" is rendered and getInnerText()
\* returns it with two spaces between "a" and "b"
C36_RunOfTwoSpacesReturned ==
    /\ ShowsTokens
    /\ last.tokens[1].value = <<"a", SP, NL, "b">>
    /\ getInnerText(nodes) = <<"a", SP, SP, "b", SP, "c">>

-----------------------------------------------------------------------------
(* Change events around the timer and the macrotask of a cycle: a later      *)
(* change event comes while the timer of the earlier one is pending, after   *)
(* it fired, or after its call was made; selectNodeByIdx puts the caret      *)
(* into either token.                                                        *)

NextSuperseded ==
    \/ TimeoutRun
    \/ InputEvent
    \/ TimerFire
    \/ MacrotaskRun
    \/ PipelineResolveOf({TwoComplete, LastIncomplete})
    \/ SelectNodeByIdxOf({0, 1}, {1})

SpecSuperseded == InitChange /\ [][NextSuperseded]_vars

\* a later qualifying change event has come after change event ev
Superseded(ev) == \E e \in hist.qualified : e > ev

\* C37 as stated: config.onChange is not called for a change event that a
\* later qualifying change event has superseded
C37_NoCallForSupersededEvent ==
    [][last'.op = "macrotask" => ~Superseded(last'.ev)]_vars

\* C37: config.onChange is not called for a change event that was superseded
\* while its debounce timer was pending; for a change event that was
\* superseded after its timer fired and before its macrotask ran the call is
\* made with the text of that event, and what it returns is not rendered
C37_NoCallForEventSupersededBeforeTimerFired ==
    /\ [](\A e \in hist.cancelled : \A i \in 1..Len(hist.called) : hist.called[i] # e)
    /\ [][(last'.op = "macrotask" /\ Superseded(last'.ev)) =>
              /\ last'.ev \notin hist.cancelled
              /\ \E t \in tasks :
                     /\ t.ev = last'.ev /\ t.stage = "macrotask" /\ ~t.live
                     /\ last'.call = Call(t.text, t.caret, FALSE)
              /\ last'.cbs = <<"onChange">>
              /\ hist'.called = Append(hist.called, last'.ev)
              /\ \E t \in tasks' : t.ev = last'.ev /\ t.stage = "inflight" /\ ~t.live]_vars
    /\ [][(last'.op = "changeResolve" /\ Superseded(last'.ev)) =>
              ~last'.render /\ nodes' = nodes]_vars

\* config.onChange was called for change event 1 after change event 2
C37_CalledForSupersededEvent ==
    /\ last.op = "macrotask"
    /\ last.ev = 1
    /\ last.call.issued
    /\ hist.qualified = {1, 2}
    /\ hist.cancelled = {}

-----------------------------------------------------------------------------
(* Renders around a composition: change events before, during and after it, *)
(* the cycles they start, and the call of compositionend with its response. *)

NextComposing ==
    \/ TimeoutRun
    \/ InputEvent
    \/ TimerFire
    \/ MacrotaskRun
    \/ PipelineResolveOf({LastIncomplete})
    \/ CompositionStart
    \/ CompositionEnd
    \/ RefreshResolveOf({LastIncomplete})

SpecComposing == InitChange /\ [][NextComposing]_vars

\* the step replaced the child nodes of the container by rendered tokens
Replaces == last'.render /\ last'.mutated

\* C38 as stated: no step taken while a composition is active replaces the
\* content of the container
C38_NoRenderWhileComposing ==
    [][isComposingIME => ~Replaces]_vars

\* C38: a change event during a composition starts no cycle, so no render
\* comes from it; the tokens of a cycle that a change event started before the
\* composition, and the tokens of a refreshTokens call, are rendered when they
\* arrive during the composition as they are outside of one
C38_OnlyEarlierCyclesRenderWhileComposing ==
    [][isComposingIME =>
           /\ last'.op = "input" => (tasks' = tasks /\ last'.ev \notin hist'.qualified)
           /\ Replaces =>
                 \/ last'.op = "changeResolve" /\ last'.ev \in hist.qualified
                 \/ last'.op = "refreshResolve"
           /\ (last'.op = "changeResolve" /\ \E t \in tasks : t.ev = last'.ev /\ t.live) =>
                 /\ last'.render
                 /\ last'.mutated = tokenizeDisplay(D0, focused, last'.tokens, FALSE).mutated]_vars

\* the tokens of a cycle that began before the composition replaced the
\* content while the composition was active
C38_RenderedWhileComposing ==
    /\ isComposingIME
    /\ last.op = "changeResolve"
    /\ last.render
    /\ last.mutated
    /\ last.tokens = LastIncomplete
    /\ last.ev \in hist.qualified

-----------------------------------------------------------------------------
(* The edited marking: clicks on tokens and on the container, blur events,   *)
(* blur(), the Enter and Backspace keys, updateDisplay with and without an   *)
(* index, and destroy().                                                     *)

EditedTokens == {TwoComplete, LastIncomplete}

InitEdited == InitOf(EditedTokens, {TRUE})

NextEdited ==
    \/ TimeoutRun
    \/ MouseDownToken
    \/ MouseDownContainer
    \/ UserBlur
    \/ BlurCall
    \/ UpdateDisplayOf(EditedTokens, {-1, 0}, {FALSE})
    \/ KeyDownOf({"Enter", "Backspace"})
    \/ KeyDebounceExpire
    \/ KeyNavExpire
    \/ Destroy

SpecEdited == InitEdited /\ [][NextEdited]_vars

\* the child nodes that carry the edited class
EditedNodes(ns) == {i \in 1..Len(ns) : HasClass(ns[i], classes.EDITED)}

\* C39 as stated: at most one child node carries the edited class, and none
\* does after a blur event or a call of blur()
C39_OneEditedNodeAndNoneAfterBlur ==
    /\ Cardinality(EditedNodes(nodes)) <= 1
    /\ last.op \in {"blur", "blurCall"} => EditedNodes(nodes) = {}

\* C39: at most one child node carries the edited class, and none does after
\* a call of blur() or after a blur event that came before destroy()
C39_OneEditedNodeAndNoneAfterHandledBlur ==
    /\ Cardinality(EditedNodes(nodes)) <= 1
    /\ last.op = "blurCall" => EditedNodes(nodes) = {}
    /\ (last.op = "blur" /\ subscribed) => EditedNodes(nodes) = {}

\* a blur event was handled: the focus change was reported and no child node
\* carries the edited class
C39_BlurClearedEditedNode ==
    /\ last.op = "blur"
    /\ subscribed
    /\ last.cbs # <<>>
    /\ EditedNodes(nodes) = {}
    /\ editedNode = NullRef

-----------------------------------------------------------------------------
(* utils.restoreSelection followed by utils.getCaretPosition on the content  *)
(* as rendered: the offsets are those of the logical text.                   *)

\* utils.restoreSelection(el, offset) for an offset of the logical text
RestoreSelection ==
    \E offset \in 0..Len(getInnerText(nodes)) :
    \E r \in {restoreSelection(nodes, sel, offset)} :
        /\ sel' = r.sel
        /\ last' = [Step("restoreSelection") EXCEPT
                        !.offset = offset,
                        !.result = IF r.threw THEN "raised" ELSE "done"]
        /\ UNCHANGED <<env, cached, keys, nodes, focused, editedNode, isComposingIME, subscribed,
                       keyupsOpen, tasks, reqs, timeouts, evCount, callSeq, hist>>

RoundTripTokens == RestoreTokens \cup {WithLineBreak}

InitRoundTrip == InitOf(RoundTripTokens, {TRUE})

NextRoundTrip ==
    \/ TimeoutRun
    \/ MouseDownContainer
    \/ UpdateDisplayOf(RoundTripTokens, {-1}, {FALSE})
    \/ RestoreSelection

SpecRoundTrip == InitRoundTrip /\ [][NextRoundTrip]_vars

\* restoreSelection did not raise and getCaretPosition returns its offset
RoundTrips ==
    /\ last'.result # "raised"
    /\ getCaretPosition(nodes', sel') = last'.offset

\* C40: restoreSelection with an offset of the logical text does not raise,
\* and getCaretPosition then returns that offset
C40_RestoreThenCaptureReturnsOffset ==
    [][last'.op = "restoreSelection" => RoundTrips]_vars

\* the token sequences in which no value is empty and every token but the
\* last is complete: a separator stands for every joining space of the text
SeparatedTokens ==
    {t \in RoundTripTokens :
        \A i \in 1..Len(t) : t[i].value # <<>> /\ (i < Len(t) => ~t[i].isIncomplete)}

\* for content rendered from such tokens the offsets of the text round-trip
RoundTripOfSeparatedTokens ==
    [][(/\ last'.op = "restoreSelection"
        /\ \E t \in SeparatedTokens : WithoutEditedMarking(innerHTML(nodes)) = classify(t))
        => RoundTrips]_vars

\* restoreSelection raised for the offset 3 of the text "a b" of two
\* incomplete tokens
C40_RestoreRaisedWithinText ==
    /\ last.op = "restoreSelection"
    /\ last.result = "raised"
    /\ last.offset = 3
    /\ getInnerText(nodes) = <<"a", SP, "b">>
    /\ innerHTML(nodes) = classify(TwoIncomplete)

====
